---- MODULE Spec2Model ----
(***************************************************************************)
(* Code generation, register allocation and execution pipeline of the      *)
(* expression compiler: RenameVisitor -> GenVisitor -> RegAllocator ->     *)
(* Program.eval.                                                           *)
(***************************************************************************)
EXTENDS Integers, Sequences, FiniteSets, TLC

VARIABLES variant, exp, stage, gen, var_answer, p, prog, opt, steps

vars == <<variant, exp, stage, gen, var_answer, p, prog, opt, steps>>

(***************************************************************************)
(* Bounds of the model.                                                    *)
(***************************************************************************)
\* literals range over -MaxNum..MaxNum
MaxNum == 2
\* cap on the number of instructions one machine run may execute
MaxSteps == 60

(***************************************************************************)
(* Program constants.                                                      *)
(***************************************************************************)
MemSize == 1000
\* the target of a Beq/Jal that has not been patched yet (Python None)
None == -1

(***************************************************************************)
(* Expression nodes (Expression.py).                                       *)
(***************************************************************************)
Var(identifier) == [k |-> "var", identifier |-> identifier]
Bln(bln) == [k |-> "bln", bln |-> bln]
Num(num) == [k |-> "num", num |-> num]
BinaryExpression(k, left, right) == [k |-> k, left |-> left, right |-> right]
Eql(left, right) == BinaryExpression("eql", left, right)
Add(left, right) == BinaryExpression("add", left, right)
And(left, right) == BinaryExpression("and", left, right)
Or(left, right) == BinaryExpression("or", left, right)
Sub(left, right) == BinaryExpression("sub", left, right)
Mul(left, right) == BinaryExpression("mul", left, right)
Div(left, right) == BinaryExpression("div", left, right)
Leq(left, right) == BinaryExpression("leq", left, right)
Lth(left, right) == BinaryExpression("lth", left, right)
UnaryExpression(k, e) == [k |-> k, exp |-> e]
Neg(e) == UnaryExpression("neg", e)
Not(e) == UnaryExpression("not", e)
Let(identifier, exp_def, exp_body) ==
    [k |-> "let", identifier |-> identifier, exp_def |-> exp_def, exp_body |-> exp_body]
Fn(formal, body) == [k |-> "fn", formal |-> formal, body |-> body]
App(function, actual) == [k |-> "app", function |-> function, actual |-> actual]
IfThenElse(cond, e0, e1) == [k |-> "if", cond |-> cond, e0 |-> e0, e1 |-> e1]

BinaryKinds == {"eql", "add", "and", "or", "sub", "mul", "div", "leq", "lth"}
UnaryKinds == {"neg", "not"}

(***************************************************************************)
(* Instructions of the Asm module.                                         *)
(***************************************************************************)
Asm_Addi(rd, rs1, imm) == [op |-> "addi", rd |-> rd, rs1 |-> rs1, imm |-> imm]
Asm_Xori(rd, rs1, imm) == [op |-> "xori", rd |-> rd, rs1 |-> rs1, imm |-> imm]
Asm_Slti(rd, rs1, imm) == [op |-> "slti", rd |-> rd, rs1 |-> rs1, imm |-> imm]
Asm_Add(rd, rs1, rs2) == [op |-> "add", rd |-> rd, rs1 |-> rs1, rs2 |-> rs2]
Asm_Sub(rd, rs1, rs2) == [op |-> "sub", rd |-> rd, rs1 |-> rs1, rs2 |-> rs2]
Asm_Mul(rd, rs1, rs2) == [op |-> "mul", rd |-> rd, rs1 |-> rs1, rs2 |-> rs2]
Asm_Div(rd, rs1, rs2) == [op |-> "div", rd |-> rd, rs1 |-> rs1, rs2 |-> rs2]
Asm_Xor(rd, rs1, rs2) == [op |-> "xor", rd |-> rd, rs1 |-> rs1, rs2 |-> rs2]
Asm_Slt(rd, rs1, rs2) == [op |-> "slt", rd |-> rd, rs1 |-> rs1, rs2 |-> rs2]
Asm_Lw(rs1, offset, reg) == [op |-> "lw", rs1 |-> rs1, offset |-> offset, reg |-> reg]
Asm_Sw(rs1, offset, reg) == [op |-> "sw", rs1 |-> rs1, offset |-> offset, reg |-> reg]
Asm_Beq(rs1, rs2, lab) == [op |-> "beq", rs1 |-> rs1, rs2 |-> rs2, lab |-> lab]
Asm_Jal(rd, lab) == [op |-> "jal", rd |-> rd, lab |-> lab]
Asm_Jalr(rd, rs, offset) == [op |-> "jalr", rd |-> rd, rs |-> rs, offset |-> offset]

ImmOps == {"addi", "xori", "slti"}
StdOps == {"add", "sub", "mul", "div", "xor", "slt"}

(***************************************************************************)
(* Integer operations of the host (Python int: unbounded, floor division,  *)
(* two's complement xor).                                                  *)
(***************************************************************************)
FloorDiv(a, b) == IF b > 0 THEN a \div b ELSE (-a) \div (-b)

RECURSIVE BitXor(_, _)
BitXor(a, b) ==
    IF a = 0 THEN b
    ELSE IF b = 0 THEN a
    ELSE IF a = -1 THEN -b - 1
    ELSE IF b = -1 THEN -a - 1
    ELSE 2 * BitXor(a \div 2, b \div 2) + (IF (a % 2) = (b % 2) THEN 0 ELSE 1)

BinValue(op, a, b) ==
    CASE op \in {"add", "addi"} -> a + b
      [] op = "sub" -> a - b
      [] op = "mul" -> a * b
      [] op = "div" -> FloorDiv(a, b)
      [] op \in {"xor", "xori"} -> BitXor(a, b)
      [] op \in {"slt", "slti"} -> IF a < b THEN 1 ELSE 0

(***************************************************************************)
(* Program: instruction list, variable table, memory and program counter. *)
(***************************************************************************)
Registers == [x0 |-> 0, sp |-> MemSize, ra |-> 0, a0 |-> 0, a1 |-> 0, a2 |-> 0, a3 |-> 0]

\* Program(memory_size, env, insts): memory is all zero, pc is 0
Program(env, insts) ==
    [insts |-> insts, pc |-> 0, env |-> env @@ Registers, mem |-> <<>>, fault |-> FALSE]

Defined(pr, var) == var = "x0" \/ var \in DOMAIN pr.env
get_val(pr, var) == IF var = "x0" THEN 0 ELSE pr.env[var]
set_val(pr, var, value) ==
    IF var = "x0" THEN pr ELSE [pr EXCEPT !.env = (var :> value) @@ pr.env]
ValidAddr(a) == a >= 0 /\ a < MemSize
get_mem(pr, addr) == IF addr \in DOMAIN pr.mem THEN pr.mem[addr] ELSE 0
set_mem(pr, addr, value) == [pr EXCEPT !.mem = (addr :> value) @@ pr.mem]
get_pc(pr) == pr.pc
set_pc(pr, pc) == [pr EXCEPT !.pc = pc]
get_number_of_instructions(pr) == Len(pr.insts)
add_inst(pr, inst) == [pr EXCEPT !.insts = Append(@, inst)]
set_insts(pr, insts) == [pr EXCEPT !.insts = insts]
reset_env(pr) == [pr EXCEPT !.env = Registers]
\* inst.set_target(lab) on the instruction object held at (1-based) position idx
set_target(pr, idx, lab) == [pr EXCEPT !.insts[idx].lab = lab]

Fault(pr) == [pr EXCEPT !.fault = TRUE]
Running(pr) == ~pr.fault /\ pr.pc >= 0 /\ pr.pc < Len(pr.insts)
Halted(pr) == ~pr.fault /\ pr.pc >= Len(pr.insts)
CurInst(pr) == pr.insts[pr.pc + 1]

\* the registers/variables an instruction reads
Sources(i) ==
    CASE i.op \in ImmOps -> {i.rs1}
      [] i.op \in StdOps -> {i.rs1, i.rs2}
      [] i.op = "lw" -> {i.rs1}
      [] i.op = "sw" -> {i.rs1, i.reg}
      [] i.op = "beq" -> {i.rs1, i.rs2}
      [] i.op = "jal" -> {}
      [] i.op = "jalr" -> {i.rs}

\* inst.eval(prog): the effect of one instruction on a running program
Exec(pr) ==
    LET i == CurInst(pr) IN
    IF \E s \in Sources(i) : ~Defined(pr, s) THEN Fault(pr)
    ELSE CASE i.op \in ImmOps ->
                set_pc(set_val(pr, i.rd, BinValue(i.op, get_val(pr, i.rs1), i.imm)), pr.pc + 1)
           [] i.op \in StdOps ->
                IF i.op = "div" /\ get_val(pr, i.rs2) = 0 THEN Fault(pr)
                ELSE set_pc(set_val(pr, i.rd,
                                BinValue(i.op, get_val(pr, i.rs1), get_val(pr, i.rs2))),
                            pr.pc + 1)
           [] i.op = "lw" ->
                LET addr == i.offset + get_val(pr, i.rs1) IN
                IF ~ValidAddr(addr) THEN Fault(pr)
                ELSE set_pc(set_val(pr, i.reg, get_mem(pr, addr)), pr.pc + 1)
           [] i.op = "sw" ->
                LET addr == i.offset + get_val(pr, i.rs1) IN
                IF ~ValidAddr(addr) THEN Fault(pr)
                ELSE set_pc(set_mem(pr, addr, get_val(pr, i.reg)), pr.pc + 1)
           [] i.op = "beq" ->
                IF get_val(pr, i.rs1) = get_val(pr, i.rs2)
                THEN (IF i.lab = None THEN Fault(pr) ELSE set_pc(pr, i.lab))
                ELSE set_pc(pr, pr.pc + 1)
           [] i.op = "jal" ->
                IF i.lab = None THEN Fault(pr)
                ELSE set_pc(set_val(pr, i.rd, pr.pc + 1), i.lab)
           [] i.op = "jalr" ->
                LET target == get_val(pr, i.rs) + i.offset IN
                IF target < 0 THEN Fault(pr)
                ELSE set_pc(set_val(pr, i.rd, pr.pc + 1), target)

(***************************************************************************)
(* GenVisitor: lowering of expressions to instructions.  A visit takes the *)
(* visitor's counters and the program under construction (s.prog) and     *)
(* returns them updated, with the name of the variable that holds the     *)
(* value of the expression in s.ret.                                       *)
(***************************************************************************)
GenVisitor == [next_var_counter |-> 0, next_fn_counter |-> 0]
GenState(prg) == [gv |-> GenVisitor, prog |-> prg, ret |-> ""]

VarName(n) == "v" \o ToString(n)
\* a name taken from the counter without advancing it
next_var_name_stale(s) == [s EXCEPT !.ret = VarName(s.gv.next_var_counter + 1)]

next_var_name(s) == [s EXCEPT !.gv.next_var_counter = @ + 1,
                              !.ret = VarName(s.gv.next_var_counter + 1)]
next_fn_value(s) == [s EXCEPT !.gv.next_fn_counter = @ + 1,
                              !.ret = ToString(s.gv.next_fn_counter + 1)]
\* prog.add_inst(inst)
Emit(s, inst) == [s EXCEPT !.prog = add_inst(s.prog, inst)]
\* inst.set_target(prog.get_number_of_instructions()) for the instruction at idx
\* a patch with the index after the next instruction
Patch_next(s, idx) ==
    [s EXCEPT !.prog = set_target(s.prog, idx, get_number_of_instructions(s.prog) + 1)]

\* a patch with the index of the patched instruction itself
Patch_self(s, idx) == [s EXCEPT !.prog = set_target(s.prog, idx, idx - 1)]

Patch(s, idx) ==
    [s EXCEPT !.prog = set_target(s.prog, idx, get_number_of_instructions(s.prog))]
Return(s, var) == [s EXCEPT !.ret = var]

RECURSIVE accept(_, _)

GenVisitor_visit_var(e, s) == Return(s, e.identifier)

GenVisitor_visit_bln(e, s) ==
    LET s1 == next_var_name(s)
        var == s1.ret
    IN Return(Emit(s1, Asm_Addi(var, "x0", IF e.bln THEN 1 ELSE 0)), var)

GenVisitor_visit_num(e, s) ==
    LET s1 == next_var_name(s)
        var == s1.ret
    IN Return(Emit(s1, Asm_Addi(var, "x0", e.num)), var)

\* a lowering of Eql that tests only diff < 1
GenVisitor_visit_eql_nonneg(e, s) ==
    LET l == accept(e.left, s)
        r == accept(e.right, l)
        s1 == next_var_name(r)
        diff == s1.ret
        s2 == next_var_name(Emit(s1, Asm_Sub(diff, l.ret, r.ret)))
        tmp == s2.ret
        s3 == next_var_name(Emit(s2, Asm_Slti(tmp, diff, 1)))
        tmp2 == s3.ret
        s4 == next_var_name(Emit(s3, Asm_Slti(tmp2, diff, 0)))
        result == s4.ret
    IN Return(Emit(s4, Asm_Sub(result, tmp, "x0")), result)

GenVisitor_visit_eql(e, s) ==
    LET l == accept(e.left, s)
        r == accept(e.right, l)
        s1 == next_var_name(r)
        diff == s1.ret
        s2 == next_var_name(Emit(s1, Asm_Sub(diff, l.ret, r.ret)))
        tmp == s2.ret
        s3 == next_var_name(Emit(s2, Asm_Slti(tmp, diff, 1)))
        tmp2 == s3.ret
        s4 == next_var_name(Emit(s3, Asm_Slti(tmp2, diff, 0)))
        result == s4.ret
    IN Return(Emit(s4, Asm_Sub(result, tmp, tmp2)), result)

\* left, right, then one register-register instruction into a fresh variable
GenBinary(e, s, op) ==
    LET l == accept(e.left, s)
        r == accept(e.right, l)
        s1 == next_var_name(r)
        var == s1.ret
    IN Return(Emit(s1, [op |-> op, rd |-> var, rs1 |-> l.ret, rs2 |-> r.ret]), var)

GenVisitor_visit_add(e, s) == GenBinary(e, s, "add")
GenVisitor_visit_sub(e, s) == GenBinary(e, s, "sub")
GenVisitor_visit_mul(e, s) == GenBinary(e, s, "mul")
GenVisitor_visit_div(e, s) == GenBinary(e, s, "div")
GenVisitor_visit_lth(e, s) == GenBinary(e, s, "slt")

\* a lowering of Leq that compares left < right
GenVisitor_visit_leq_swapped(e, s) ==
    LET l == accept(e.left, s)
        r == accept(e.right, l)
        s1 == next_var_name(r)
        tmp == s1.ret
        s2 == next_var_name(Emit(s1, Asm_Slt(tmp, l.ret, r.ret)))
        result == s2.ret
    IN Return(Emit(s2, Asm_Xori(result, tmp, 1)), result)

GenVisitor_visit_leq(e, s) ==
    LET l == accept(e.left, s)
        r == accept(e.right, l)
        s1 == next_var_name(r)
        tmp == s1.ret
        s2 == next_var_name(Emit(s1, Asm_Slt(tmp, r.ret, l.ret)))
        result == s2.ret
    IN Return(Emit(s2, Asm_Xori(result, tmp, 1)), result)

GenVisitor_visit_neg(e, s) ==
    LET v == accept(e.exp, s)
        s1 == next_var_name(v)
        var == s1.ret
    IN Return(Emit(s1, Asm_Sub(var, "x0", v.ret)), var)

\* a lowering of Not that inverts the operand itself, without normalising it
GenVisitor_visit_not_raw(e, s) ==
    LET v == accept(e.exp, s)
        val == v.ret
        s1 == next_var_name(v)
        tmp == s1.ret
        s2 == next_var_name(Emit(s1, Asm_Slt(tmp, "x0", val)))
        tmp2 == s2.ret
        s3 == next_var_name(Emit(s2, Asm_Slt(tmp2, val, "x0")))
        norm == s3.ret
        s4 == next_var_name(Emit(s3, Asm_Add(norm, tmp, tmp2)))
        var == s4.ret
    IN Return(Emit(s4, Asm_Xori(var, val, 1)), var)

GenVisitor_visit_not(e, s) ==
    LET v == accept(e.exp, s)
        val == v.ret
        s1 == next_var_name(v)
        tmp == s1.ret
        s2 == next_var_name(Emit(s1, Asm_Slt(tmp, "x0", val)))
        tmp2 == s2.ret
        s3 == next_var_name(Emit(s2, Asm_Slt(tmp2, val, "x0")))
        norm == s3.ret
        s4 == next_var_name(Emit(s3, Asm_Add(norm, tmp, tmp2)))
        var == s4.ret
    IN Return(Emit(s4, Asm_Xori(var, norm, 1)), var)

\* an And whose Beq is patched before the code of the right operand
GenVisitor_visit_and_eager(e, s) ==
    LET l == accept(e.left, s)
        s1 == next_var_name(l)
        result_var == s1.ret
        beq == Len(s1.prog.insts) + 1
        s2 == Patch(Emit(s1, Asm_Beq(l.ret, "x0", None)), beq)
        r == accept(e.right, s2)
        s3 == Emit(r, Asm_Add(result_var, r.ret, "x0"))
        jal == Len(s3.prog.insts) + 1
        s4 == Emit(s3, Asm_Jal("x0", None))
        s6 == Emit(s4, Asm_Addi(result_var, "x0", 0))
        s7 == Patch(s6, jal)
    IN Return(s7, result_var)

\* an And that puts its result in the variable of its left operand
GenVisitor_visit_and_inplace(e, s) ==
    LET l == accept(e.left, s)
        s1 == next_var_name(l)
        result_var == l.ret
        beq == Len(s1.prog.insts) + 1
        s2 == Emit(s1, Asm_Beq(l.ret, "x0", None))
        r == accept(e.right, s2)
        s3 == Emit(r, Asm_Add(result_var, r.ret, "x0"))
        jal == Len(s3.prog.insts) + 1
        s4 == Emit(s3, Asm_Jal("x0", None))
        s5 == Patch(s4, beq)
        s6 == Emit(s5, Asm_Addi(result_var, "x0", 0))
        s7 == Patch(s6, jal)
    IN Return(s7, result_var)

GenVisitor_visit_and(e, s) ==
    LET l == accept(e.left, s)
        s1 == next_var_name(l)
        result_var == s1.ret
        beq == Len(s1.prog.insts) + 1
        s2 == Emit(s1, Asm_Beq(l.ret, "x0", None))
        r == accept(e.right, s2)
        s3 == Emit(r, Asm_Add(result_var, r.ret, "x0"))
        jal == Len(s3.prog.insts) + 1
        s4 == Emit(s3, Asm_Jal("x0", None))
        s5 == Patch(s4, beq)
        s6 == Emit(s5, Asm_Addi(result_var, "x0", 0))
        s7 == Patch(s6, jal)
    IN Return(s7, result_var)

\* an Or whose Jal is patched before the code of the right operand
GenVisitor_visit_or_eager(e, s) ==
    LET l == accept(e.left, s)
        s1 == next_var_name(l)
        result_var == s1.ret
        beq == Len(s1.prog.insts) + 1
        s2 == Emit(s1, Asm_Beq(l.ret, "x0", None))
        s3 == Emit(s2, Asm_Addi(result_var, "x0", 1))
        jal == Len(s3.prog.insts) + 1
        s4 == Emit(s3, Asm_Jal("x0", None))
        s5 == Patch(Patch(s4, beq), jal)
        r == accept(e.right, s5)
        s6 == Emit(r, Asm_Add(result_var, r.ret, "x0"))
    IN Return(s6, result_var)

GenVisitor_visit_or(e, s) ==
    LET l == accept(e.left, s)
        s1 == next_var_name(l)
        result_var == s1.ret
        beq == Len(s1.prog.insts) + 1
        s2 == Emit(s1, Asm_Beq(l.ret, "x0", None))
        s3 == Emit(s2, Asm_Addi(result_var, "x0", 1))
        jal == Len(s3.prog.insts) + 1
        s4 == Emit(s3, Asm_Jal("x0", None))
        s5 == Patch(s4, beq)
        r == accept(e.right, s5)
        s6 == Emit(r, Asm_Add(result_var, r.ret, "x0"))
        s7 == Patch(s6, jal)
    IN Return(s7, result_var)

\* a Let that does not copy the definition into the bound name
GenVisitor_visit_let_unbound(e, s) ==
    LET d == accept(e.exp_def, s)
        s2 == next_var_name(d)
        var == s2.ret
        b == accept(e.exp_body, s2)
    IN Return(Emit(b, Asm_Add(var, "x0", b.ret)), var)

GenVisitor_visit_let(e, s) ==
    LET d == accept(e.exp_def, s)
        s1 == Emit(d, Asm_Add(e.identifier, "x0", d.ret))
        s2 == next_var_name(s1)
        var == s2.ret
        b == accept(e.exp_body, s2)
    IN Return(Emit(b, Asm_Add(var, "x0", b.ret)), var)

\* an IfThenElse whose Jal is patched before the code of the else branch
GenVisitor_visit_ifThenElse_fallthrough(e, s) ==
    LET c == accept(e.cond, s)
        s1 == next_var_name(c)
        result_var == s1.ret
        beq == Len(s1.prog.insts) + 1
        s2 == Emit(s1, Asm_Beq(c.ret, "x0", None))
        t == accept(e.e0, s2)
        s3 == Emit(t, Asm_Add(result_var, t.ret, "x0"))
        jal == Len(s3.prog.insts) + 1
        s4 == Emit(s3, Asm_Jal("x0", None))
        s5 == Patch(Patch(s4, beq), jal)
        f == accept(e.e1, s5)
        s6 == Emit(f, Asm_Add(result_var, f.ret, "x0"))
    IN Return(s6, result_var)

GenVisitor_visit_ifThenElse(e, s) ==
    LET c == accept(e.cond, s)
        s1 == next_var_name(c)
        result_var == s1.ret
        beq == Len(s1.prog.insts) + 1
        s2 == Emit(s1, Asm_Beq(c.ret, "x0", None))
        t == accept(e.e0, s2)
        s3 == Emit(t, Asm_Add(result_var, t.ret, "x0"))
        jal == Len(s3.prog.insts) + 1
        s4 == Emit(s3, Asm_Jal("x0", None))
        s5 == Patch(s4, beq)
        f == accept(e.e1, s5)
        s6 == Emit(f, Asm_Add(result_var, f.ret, "x0"))
        s7 == Patch(s6, jal)
    IN Return(s7, result_var)

\* a function that pops the stack before it reloads ra
GenVisitor_visit_fn_popped_early(e, s) ==
    LET s0 == next_fn_value(s)
        fun_addr == "fun_" \o e.formal \o "_" \o s0.ret
        jal == Len(s0.prog.insts) + 1
        s1 == Emit(s0, Asm_Jal(fun_addr, None))
        s2 == Emit(s1, Asm_Addi("sp", "sp", -1))
        s3 == Emit(s2, Asm_Sw("sp", 0, "ra"))
        s4 == Emit(s3, Asm_Add(e.formal, "a0", "x0"))
        b == accept(e.body, s4)
        s5 == Emit(b, Asm_Add("a0", b.ret, "x0"))
        s6 == Emit(s5, Asm_Addi("sp", "sp", 1))
        s7 == Emit(s6, Asm_Lw("sp", 0, "ra"))
        s8 == Emit(s7, Asm_Jalr("x0", "ra", 0))
        s9 == Patch(s8, jal)
    IN Return(s9, fun_addr)

\* a function whose Jal is patched before the body is emitted
GenVisitor_visit_fn_unguarded(e, s) ==
    LET s0 == next_fn_value(s)
        fun_addr == "fun_" \o e.formal \o "_" \o s0.ret
        jal == Len(s0.prog.insts) + 1
        s1 == Patch(Emit(s0, Asm_Jal(fun_addr, None)), jal)
        s2 == Emit(s1, Asm_Addi("sp", "sp", -1))
        s3 == Emit(s2, Asm_Sw("sp", 0, "ra"))
        s4 == Emit(s3, Asm_Add(e.formal, "a0", "x0"))
        b == accept(e.body, s4)
        s5 == Emit(b, Asm_Add("a0", b.ret, "x0"))
        s6 == Emit(s5, Asm_Lw("sp", 0, "ra"))
        s7 == Emit(s6, Asm_Addi("sp", "sp", 1))
    IN Return(Emit(s7, Asm_Jalr("x0", "ra", 0)), fun_addr)

GenVisitor_visit_fn(e, s) ==
    LET s0 == next_fn_value(s)
        fun_addr == "fun_" \o e.formal \o "_" \o s0.ret
        jal == Len(s0.prog.insts) + 1
        s1 == Emit(s0, Asm_Jal(fun_addr, None))
        s2 == Emit(s1, Asm_Addi("sp", "sp", -1))
        s3 == Emit(s2, Asm_Sw("sp", 0, "ra"))
        s4 == Emit(s3, Asm_Add(e.formal, "a0", "x0"))
        b == accept(e.body, s4)
        s5 == Emit(b, Asm_Add("a0", b.ret, "x0"))
        s6 == Emit(s5, Asm_Lw("sp", 0, "ra"))
        s7 == Emit(s6, Asm_Addi("sp", "sp", 1))
        s8 == Emit(s7, Asm_Jalr("x0", "ra", 0))
        s9 == Patch(s8, jal)
    IN Return(s9, fun_addr)

\* an App whose call does not save the return address
GenVisitor_visit_app_nolink(e, s) ==
    LET f == accept(e.function, s)
        a == accept(e.actual, f)
        s1 == Emit(a, Asm_Add("a0", a.ret, "x0"))
        s2 == Emit(s1, Asm_Jalr("x0", f.ret, 0))
        s3 == next_var_name(s2)
        result_var == s3.ret
    IN Return(Emit(s3, Asm_Add(result_var, "a0", "x0")), result_var)

GenVisitor_visit_app(e, s) ==
    LET f == accept(e.function, s)
        a == accept(e.actual, f)
        s1 == Emit(a, Asm_Add("a0", a.ret, "x0"))
        s2 == Emit(s1, Asm_Jalr("ra", f.ret, 0))
        s3 == next_var_name(s2)
        result_var == s3.ret
    IN Return(Emit(s3, Asm_Add(result_var, "a0", "x0")), result_var)

\* GenVisitor of ControlFlow: the visits of GenVisitor above, without Fn and
\* App, and its own visit_let
ControlFlow_GenVisitor == [next_var_counter |-> 0, module |-> "ControlFlow"]
IsControlFlow(gv) == "module" \in DOMAIN gv

\* prog.eval(): the execution loop, from the current pc until the program
\* leaves its instruction list or an instruction raises
\* (at most MaxSteps instructions, as in the runs below)
RECURSIVE eval_loop(_, _)
eval_loop(pr, n) == IF Running(pr) /\ n < MaxSteps THEN eval_loop(Exec(pr), n + 1) ELSE pr
Program_eval(pr) == eval_loop(pr, 0)

\* prog.eval(); val = prog.get_val(val_var); prog.set_val(identifier, val);
\* the program is marked when eval or get_val raises
ControlFlow_GenVisitor_visit_let(e, s) ==
    LET d == accept(e.exp_def, s)
        ran == Program_eval(d.prog)
        bound == IF ran.fault \/ ~Defined(ran, d.ret) THEN [ran EXCEPT !.fault = TRUE]
                 ELSE set_val(ran, e.identifier, get_val(ran, d.ret))
    IN accept(e.exp_body, [d EXCEPT !.prog = bound])

\* exp.accept(gen, prog): double dispatch on the node kind and on the
\* visitor's class
accept(e, s) ==
    CASE e.k = "var" -> GenVisitor_visit_var(e, s)
      [] e.k = "bln" -> GenVisitor_visit_bln(e, s)
      [] e.k = "num" -> GenVisitor_visit_num(e, s)
      [] e.k = "eql" -> GenVisitor_visit_eql(e, s)
      [] e.k = "and" -> GenVisitor_visit_and(e, s)
      [] e.k = "or" -> GenVisitor_visit_or(e, s)
      [] e.k = "add" -> GenVisitor_visit_add(e, s)
      [] e.k = "sub" -> GenVisitor_visit_sub(e, s)
      [] e.k = "mul" -> GenVisitor_visit_mul(e, s)
      [] e.k = "div" -> GenVisitor_visit_div(e, s)
      [] e.k = "leq" -> GenVisitor_visit_leq(e, s)
      [] e.k = "lth" -> GenVisitor_visit_lth(e, s)
      [] e.k = "neg" -> GenVisitor_visit_neg(e, s)
      [] e.k = "not" -> GenVisitor_visit_not(e, s)
      [] e.k = "let" -> IF IsControlFlow(s.gv) THEN ControlFlow_GenVisitor_visit_let(e, s)
                        ELSE GenVisitor_visit_let(e, s)
      [] e.k = "if" -> GenVisitor_visit_ifThenElse(e, s)
      [] e.k = "fn" -> GenVisitor_visit_fn(e, s)
      [] e.k = "app" -> GenVisitor_visit_app(e, s)

(***************************************************************************)
(* RenameVisitor of CodeGenFunctions: fresh names from a counter; a Var    *)
(* without a mapping is left as it is.  A visit returns the renamed node   *)
(* and the visitor's counter.                                              *)
(***************************************************************************)
Renamed(e, c) == [exp |-> e, var_counter |-> c]
\* a fresh name that does not depend on the counter
FreshName_constant(identifier, n) == identifier \o "_" \o ToString(1)
FreshName(identifier, n) == identifier \o "_" \o ToString(n)
\* new_name_map = dict(name_map); new_name_map[old] = new
Bind(name_map, old, new) == (old :> new) @@ name_map

RECURSIVE rename(_, _, _)

RenameVisitor_visit_var(e, name_map, c) ==
    IF e.identifier \in DOMAIN name_map
    THEN Renamed(Var(name_map[e.identifier]), c)
    ELSE Renamed(e, c)

RenameVisitor_visit_binary(e, name_map, c) ==
    LET l == rename(e.left, name_map, c)
        r == rename(e.right, name_map, l.var_counter)
    IN Renamed(BinaryExpression(e.k, l.exp, r.exp), r.var_counter)

RenameVisitor_visit_unary(e, name_map, c) ==
    LET v == rename(e.exp, name_map, c)
    IN Renamed(UnaryExpression(e.k, v.exp), v.var_counter)

RenameVisitor_visit_ifThenElse(e, name_map, c) ==
    LET cnd == rename(e.cond, name_map, c)
        t == rename(e.e0, name_map, cnd.var_counter)
        f == rename(e.e1, name_map, t.var_counter)
    IN Renamed(IfThenElse(cnd.exp, t.exp, f.exp), f.var_counter)

\* a Let whose definition is renamed in the environment of its body
RenameVisitor_visit_let_recursive(e, name_map, c) ==
    LET new_identifier == FreshName(e.identifier, c + 1)
        new_name_map == Bind(name_map, e.identifier, new_identifier)
        d == rename(e.exp_def, new_name_map, c + 1)
        b == rename(e.exp_body, new_name_map, d.var_counter)
    IN Renamed(Let(new_identifier, d.exp, b.exp), b.var_counter)

RenameVisitor_visit_let(e, name_map, c) ==
    LET new_identifier == FreshName(e.identifier, c + 1)
        new_name_map == Bind(name_map, e.identifier, new_identifier)
        d == rename(e.exp_def, name_map, c + 1)
        b == rename(e.exp_body, new_name_map, d.var_counter)
    IN Renamed(Let(new_identifier, d.exp, b.exp), b.var_counter)

RenameVisitor_visit_fn(e, name_map, c) ==
    LET new_identifier == FreshName(e.formal, c + 1)
        new_name_map == Bind(name_map, e.formal, new_identifier)
        b == rename(e.body, new_name_map, c + 1)
    IN Renamed(Fn(new_identifier, b.exp), b.var_counter)

RenameVisitor_visit_app(e, name_map, c) ==
    LET f == rename(e.function, name_map, c)
        a == rename(e.actual, name_map, f.var_counter)
    IN Renamed(App(f.exp, a.exp), a.var_counter)

rename(e, name_map, c) ==
    CASE e.k = "var" -> RenameVisitor_visit_var(e, name_map, c)
      [] e.k \in {"bln", "num"} -> Renamed(e, c)
      [] e.k \in BinaryKinds -> RenameVisitor_visit_binary(e, name_map, c)
      [] e.k \in UnaryKinds -> RenameVisitor_visit_unary(e, name_map, c)
      [] e.k = "if" -> RenameVisitor_visit_ifThenElse(e, name_map, c)
      [] e.k = "let" -> RenameVisitor_visit_let(e, name_map, c)
      [] e.k = "fn" -> RenameVisitor_visit_fn(e, name_map, c)
      [] e.k = "app" -> RenameVisitor_visit_app(e, name_map, c)

(***************************************************************************)
(* RenameVisitor of CodeGenForRegisterAllocation: fresh names from the     *)
(* identity of the Let node, id(exp); a Var without a mapping raises       *)
(* ValueError.  The identity of a node is modelled by its position in the  *)
(* tree (the root is 1, the i-th child of the node at n is 2n + i): two    *)
(* nodes of one tree never have the same identity.                         *)
(***************************************************************************)
id(pos) == pos
Child(pos, i) == 2 * pos + i
RaRenamed(e, err) == [exp |-> e, err |-> err]

RECURSIVE ra_rename(_, _, _)

RegAlloc_RenameVisitor_visit_var(e, name_map, pos) ==
    IF e.identifier \in DOMAIN name_map
    THEN RaRenamed(Var(name_map[e.identifier]), FALSE)
    ELSE RaRenamed(e, TRUE)

RegAlloc_RenameVisitor_visit_binary(e, name_map, pos) ==
    LET l == ra_rename(e.left, name_map, Child(pos, 0))
        r == ra_rename(e.right, name_map, Child(pos, 1))
    IN IF l.err THEN RaRenamed(BinaryExpression(e.k, l.exp, e.right), TRUE)
       ELSE RaRenamed(BinaryExpression(e.k, l.exp, r.exp), r.err)

RegAlloc_RenameVisitor_visit_unary(e, name_map, pos) ==
    LET v == ra_rename(e.exp, name_map, Child(pos, 0))
    IN RaRenamed(UnaryExpression(e.k, v.exp), v.err)

RegAlloc_RenameVisitor_visit_let(e, name_map, pos) ==
    LET fresh_name == FreshName(e.identifier, id(pos))
        old_name == e.identifier
        new_map == Bind(name_map, old_name, fresh_name)
        d == ra_rename(e.exp_def, name_map, Child(pos, 0))
        b == ra_rename(e.exp_body, new_map, Child(pos, 1))
    IN IF d.err THEN RaRenamed(Let(fresh_name, d.exp, e.exp_body), TRUE)
       ELSE RaRenamed(Let(fresh_name, d.exp, b.exp), b.err)

ra_rename(e, name_map, pos) ==
    CASE e.k = "var" -> RegAlloc_RenameVisitor_visit_var(e, name_map, pos)
      [] e.k \in {"bln", "num"} -> RaRenamed(e, FALSE)
      [] e.k \in {"eql", "add", "sub", "mul", "div", "leq", "lth"} ->
            RegAlloc_RenameVisitor_visit_binary(e, name_map, pos)
      [] e.k \in UnaryKinds -> RegAlloc_RenameVisitor_visit_unary(e, name_map, pos)
      [] e.k = "let" -> RegAlloc_RenameVisitor_visit_let(e, name_map, pos)

(***************************************************************************)
(* RenameVisitor of ControlFlow: the definition of a Let is visited first, *)
(* then the fresh name is made from the counter, which is incremented      *)
(* after its use (the first name is x_0); a Var without a mapping is left  *)
(* as it is.                                                               *)
(***************************************************************************)
RECURSIVE cf_rename(_, _, _)

ControlFlow_RenameVisitor_visit_var(e, name_map, c) ==
    IF e.identifier \in DOMAIN name_map
    THEN Renamed(Var(name_map[e.identifier]), c)
    ELSE Renamed(e, c)

ControlFlow_RenameVisitor_visit_binary(e, name_map, c) ==
    LET l == cf_rename(e.left, name_map, c)
        r == cf_rename(e.right, name_map, l.var_counter)
    IN Renamed(BinaryExpression(e.k, l.exp, r.exp), r.var_counter)

ControlFlow_RenameVisitor_visit_unary(e, name_map, c) ==
    LET v == cf_rename(e.exp, name_map, c)
    IN Renamed(UnaryExpression(e.k, v.exp), v.var_counter)

ControlFlow_RenameVisitor_visit_let(e, name_map, c) ==
    LET d == cf_rename(e.exp_def, name_map, c)
        new_name == FreshName(e.identifier, d.var_counter)
        new_map == Bind(name_map, e.identifier, new_name)
        b == cf_rename(e.exp_body, new_map, d.var_counter + 1)
    IN Renamed(Let(new_name, d.exp, b.exp), b.var_counter)

ControlFlow_RenameVisitor_visit_ifThenElse(e, name_map, c) ==
    LET cnd == cf_rename(e.cond, name_map, c)
        t == cf_rename(e.e0, name_map, cnd.var_counter)
        f == cf_rename(e.e1, name_map, t.var_counter)
    IN Renamed(IfThenElse(cnd.exp, t.exp, f.exp), f.var_counter)

cf_rename(e, name_map, c) ==
    CASE e.k = "var" -> ControlFlow_RenameVisitor_visit_var(e, name_map, c)
      [] e.k \in {"bln", "num"} -> Renamed(e, c)
      [] e.k \in BinaryKinds -> ControlFlow_RenameVisitor_visit_binary(e, name_map, c)
      [] e.k \in UnaryKinds -> ControlFlow_RenameVisitor_visit_unary(e, name_map, c)
      [] e.k = "let" -> ControlFlow_RenameVisitor_visit_let(e, name_map, c)
      [] e.k = "if" -> ControlFlow_RenameVisitor_visit_ifThenElse(e, name_map, c)

(***************************************************************************)
(* RegAllocator: every variable gets a memory slot; each instruction is    *)
(* rewritten to load its sources into a0/a1 and to store its destination.  *)
(* A handler returns the allocator (a.o), the instructions that replace    *)
(* the handled one (a.insts) and whether a lookup of var_to_mem raised     *)
(* KeyError (a.err).                                                       *)
(***************************************************************************)
DEFAULT_REGS == {"x0", "sp", "ra"}

RegAllocator == [memory_counter |-> 0, var_to_mem |-> <<>>, var_to_reg |-> <<>>]
Handled(o, insts, err) == [o |-> o, insts |-> insts, err |-> err]

\* a slot for every name that has none, the registers x0, sp, ra included
_ensure_memory_any(o, var) ==
    IF var \notin DOMAIN o.var_to_mem
    THEN [o EXCEPT !.memory_counter = @ + 1,
                   !.var_to_mem = (var :> (o.memory_counter + 1)) @@ o.var_to_mem]
    ELSE o

\* a slot taken from the counter without advancing it
_ensure_memory_shared(o, var) ==
    IF var \notin DEFAULT_REGS /\ var \notin DOMAIN o.var_to_mem
    THEN [o EXCEPT !.var_to_mem = (var :> (o.memory_counter + 1)) @@ o.var_to_mem]
    ELSE o

_ensure_memory(o, var) ==
    IF var \notin DEFAULT_REGS /\ var \notin DOMAIN o.var_to_mem
    THEN [o EXCEPT !.memory_counter = @ + 1,
                   !.var_to_mem = (var :> (o.memory_counter + 1)) @@ o.var_to_mem]
    ELSE o

\* dest_reg = "a0" if rd not in DEFAULT_REGS else rd; var_to_reg[rd] = "a0"
\* a destination that keeps the symbolic name
DestReg_symbolic(rd) == rd

DestReg(rd) == IF rd \notin DEFAULT_REGS THEN "a0" ELSE rd
NoteReg(o, rd) ==
    IF rd \notin DEFAULT_REGS THEN [o EXCEPT !.var_to_reg = (rd :> "a0") @@ o.var_to_reg]
    ELSE o

\* _load returns the register that holds var, after appending the load to a.insts
_load(a, var, target_reg) ==
    IF var \in DEFAULT_REGS THEN [a EXCEPT !.reg = var]
    ELSE IF var \notin DOMAIN a.o.var_to_mem THEN [a EXCEPT !.err = TRUE, !.reg = target_reg]
    ELSE [a EXCEPT !.insts = Append(@, Asm_Lw("x0", a.o.var_to_mem[var], target_reg)),
                   !.reg = target_reg]

\* an allocator that never writes a destination back to its slot
_store_skipped(a, var, source_reg) == a

_store(a, var, source_reg) ==
    IF var \notin DEFAULT_REGS
    THEN [a EXCEPT !.insts = Append(@, Asm_Sw("x0", a.o.var_to_mem[var], source_reg))]
    ELSE a

Handling(o) == [o |-> o, insts |-> <<>>, err |-> FALSE, reg |-> ""]
Put(a, inst) == IF a.err THEN a ELSE [a EXCEPT !.insts = Append(@, inst)]

handle_jump(o, inst, pc) ==
    LET o1 == _ensure_memory(o, inst.rd)
        a0 == Handling(NoteReg(o1, inst.rd))
        a1 == IF inst.rd \notin DEFAULT_REGS
              THEN Put(Put(a0, Asm_Addi("a0", "x0", pc)),
                       Asm_Sw("x0", o1.var_to_mem[inst.rd], "a0"))
              ELSE a0
        dest_reg == IF inst.rd \notin DEFAULT_REGS THEN "x0" ELSE inst.rd
    IN IF inst.op = "jal" THEN Put(a1, Asm_Jal(dest_reg, inst.lab))
       ELSE LET a2 == _load(a1, inst.rs, "a1")
            IN Put(a2, Asm_Jalr(dest_reg, a2.reg, inst.offset))

\* a branch whose target is moved by the number of loads put before it
handle_branch_shifted(o, inst, pc) ==
    LET a1 == _load(Handling(o), inst.rs1, "a0")
        a2 == IF a1.err THEN a1 ELSE _load(a1, inst.rs2, "a1")
    IN Put(a2, Asm_Beq(a1.reg, a2.reg, inst.lab + Len(a2.insts)))

handle_branch(o, inst, pc) ==
    LET a1 == _load(Handling(o), inst.rs1, "a0")
        a2 == IF a1.err THEN a1 ELSE _load(a1, inst.rs2, "a1")
    IN Put(a2, Asm_Beq(a1.reg, a2.reg, inst.lab))

\* a load whose destination is not written back to its slot
handle_memory_op_unstored(o, inst, pc) ==
    IF inst.op = "lw"
    THEN LET o1 == NoteReg(_ensure_memory(o, inst.reg), inst.reg)
             dest_reg == DestReg(inst.reg)
             a1 == _load(Handling(o1), inst.rs1, "a1")
         IN Put(a1, Asm_Lw(a1.reg, inst.offset, dest_reg))
    ELSE LET a1 == _load(Handling(o), inst.reg, "a0")
             a2 == IF a1.err THEN a1 ELSE _load(a1, inst.rs1, "a1")
         IN Put(a2, Asm_Sw(a2.reg, inst.offset, a1.reg))

handle_memory_op(o, inst, pc) ==
    IF inst.op = "lw"
    THEN LET o1 == NoteReg(_ensure_memory(o, inst.reg), inst.reg)
             dest_reg == DestReg(inst.reg)
             a1 == _load(Handling(o1), inst.rs1, "a1")
             a2 == Put(a1, Asm_Lw(a1.reg, inst.offset, dest_reg))
         IN IF a2.err THEN a2 ELSE _store(a2, inst.reg, dest_reg)
    ELSE LET a1 == _load(Handling(o), inst.reg, "a0")
             a2 == IF a1.err THEN a1 ELSE _load(a1, inst.rs1, "a1")
         IN Put(a2, Asm_Sw(a2.reg, inst.offset, a1.reg))

\* an immediate instruction whose destination is stored before it is computed
handle_bin_immediate_store_first(o, inst, pc) ==
    LET o1 == NoteReg(_ensure_memory(o, inst.rd), inst.rd)
        dest_reg == DestReg(inst.rd)
        a1 == _load(Handling(o1), inst.rs1, "a0")
        a2 == IF a1.err THEN a1 ELSE _store(a1, inst.rd, dest_reg)
    IN Put(a2, [op |-> inst.op, rd |-> dest_reg, rs1 |-> a1.reg, imm |-> inst.imm])

handle_bin_immediate(o, inst, pc) ==
    LET o1 == NoteReg(_ensure_memory(o, inst.rd), inst.rd)
        dest_reg == DestReg(inst.rd)
        a1 == _load(Handling(o1), inst.rs1, "a0")
        a2 == Put(a1, [op |-> inst.op, rd |-> dest_reg, rs1 |-> a1.reg, imm |-> inst.imm])
    IN IF a2.err THEN a2 ELSE _store(a2, inst.rd, dest_reg)

\* a register-register instruction whose destination gets no slot and is
\* not written back
handle_bin_standard_unslotted(o, inst, pc) ==
    LET o1 == NoteReg(o, inst.rd)
        dest_reg == DestReg(inst.rd)
        a1 == _load(Handling(o1), inst.rs1, "a0")
        a2 == IF a1.err THEN a1 ELSE _load(a1, inst.rs2, "a1")
    IN Put(a2, [op |-> inst.op, rd |-> dest_reg, rs1 |-> a1.reg, rs2 |-> a2.reg])

handle_bin_standard(o, inst, pc) ==
    LET o1 == NoteReg(_ensure_memory(o, inst.rd), inst.rd)
        dest_reg == DestReg(inst.rd)
        a1 == _load(Handling(o1), inst.rs1, "a0")
        a2 == IF a1.err THEN a1 ELSE _load(a1, inst.rs2, "a1")
        a3 == Put(a2, [op |-> inst.op, rd |-> dest_reg, rs1 |-> a1.reg, rs2 |-> a2.reg])
    IN IF a3.err THEN a3 ELSE _store(a3, inst.rd, dest_reg)

\* self.op_handlers.get(inst.get_opcode())
op_handlers(o, inst, pc) ==
    CASE inst.op \in ImmOps -> handle_bin_immediate(o, inst, pc)
      [] inst.op \in StdOps -> handle_bin_standard(o, inst, pc)
      [] inst.op \in {"jal", "jalr"} -> handle_jump(o, inst, pc)
      [] inst.op = "beq" -> handle_branch(o, inst, pc)
      [] inst.op \in {"lw", "sw"} -> handle_memory_op(o, inst, pc)

\* the loop of optimize over prog.get_insts(), from the n-th instruction on
RECURSIVE optimize_from(_, _, _, _, _)
optimize_from(o, insts, n, new_insts, pc) ==
    IF n > Len(insts) THEN Handled(o, new_insts, FALSE)
    ELSE LET a == op_handlers(o, insts[n], pc)
         IN IF a.err THEN Handled(a.o, new_insts, TRUE)
            ELSE optimize_from(a.o, insts, n + 1, new_insts \o a.insts, pc)

\* RegAllocator(prog).optimize(): the allocator after the pass, the new
\* instruction list and whether the pass raised
optimize(pr) == optimize_from(RegAllocator, pr.insts, 1, <<>>, get_pc(pr))

\* RegAllocator.get_val(var)
Declared(o, var) == var \in DOMAIN o.var_to_mem
RegAllocator_get_val(o, pr, var) == get_mem(pr, o.var_to_mem[var])

(***************************************************************************)
(* EvalVisitor: the tree-walking evaluator.  Booleans are the integers 1   *)
(* and 0, as in the host.  A visit returns the value, or err when the      *)
(* host raises (undefined variable, division by zero).                     *)
(***************************************************************************)
Value(v) == [val |-> v, err |-> FALSE]
Raise == [val |-> 0, err |-> TRUE]

RECURSIVE eval(_, _)

EvalVisitor_visit_var(e, env) ==
    IF e.identifier \in DOMAIN env THEN Value(env[e.identifier]) ELSE Raise

EvalVisitor_visit_binary(e, env) ==
    LET left == eval(e.left, env)
        right == eval(e.right, env)
    IN IF left.err \/ right.err THEN Raise
       ELSE CASE e.k = "eql" -> Value(IF left.val = right.val THEN 1 ELSE 0)
              [] e.k = "add" -> Value(left.val + right.val)
              [] e.k = "sub" -> Value(left.val - right.val)
              [] e.k = "mul" -> Value(left.val * right.val)
              [] e.k = "div" -> IF right.val = 0 THEN Raise
                                ELSE Value(FloorDiv(left.val, right.val))
              [] e.k = "leq" -> Value(IF left.val <= right.val THEN 1 ELSE 0)
              [] e.k = "lth" -> Value(IF left.val < right.val THEN 1 ELSE 0)

EvalVisitor_visit_and(e, env) ==
    LET left == eval(e.left, env)
        right == eval(e.right, env)
    IN IF left.err THEN Raise
       ELSE IF left.val = 0 THEN Value(0)
       ELSE IF right.err THEN Raise
       ELSE Value(IF right.val # 0 THEN 1 ELSE 0)

EvalVisitor_visit_or(e, env) ==
    LET left == eval(e.left, env)
        right == eval(e.right, env)
    IN IF left.err THEN Raise
       ELSE IF left.val # 0 THEN Value(1)
       ELSE IF right.err THEN Raise
       ELSE Value(IF right.val # 0 THEN 1 ELSE 0)

EvalVisitor_visit_neg(e, env) ==
    LET v == eval(e.exp, env) IN IF v.err THEN Raise ELSE Value(-v.val)

EvalVisitor_visit_not(e, env) ==
    LET v == eval(e.exp, env) IN IF v.err THEN Raise ELSE Value(IF v.val = 0 THEN 1 ELSE 0)

EvalVisitor_visit_let(e, env) ==
    LET v == eval(e.exp_def, env)
    IN IF v.err THEN Raise ELSE eval(e.exp_body, (e.identifier :> v.val) @@ env)

EvalVisitor_visit_ifThenElse(e, env) ==
    LET cond == eval(e.cond, env)
    IN IF cond.err THEN Raise
       ELSE IF cond.val # 0 THEN eval(e.e0, env) ELSE eval(e.e1, env)

eval(e, env) ==
    CASE e.k = "var" -> EvalVisitor_visit_var(e, env)
      [] e.k = "bln" -> Value(IF e.bln THEN 1 ELSE 0)
      [] e.k = "num" -> Value(e.num)
      [] e.k \in {"eql", "add", "sub", "mul", "div", "leq", "lth"} ->
            EvalVisitor_visit_binary(e, env)
      [] e.k = "and" -> EvalVisitor_visit_and(e, env)
      [] e.k = "or" -> EvalVisitor_visit_or(e, env)
      [] e.k = "neg" -> EvalVisitor_visit_neg(e, env)
      [] e.k = "not" -> EvalVisitor_visit_not(e, env)
      [] e.k = "let" -> EvalVisitor_visit_let(e, env)
      [] e.k = "if" -> EvalVisitor_visit_ifThenElse(e, env)

(***************************************************************************)
(* The programs given to the pipeline.                                     *)
(***************************************************************************)
Nums == {Num(n) : n \in -MaxNum..MaxNum}
Blns == {Bln(TRUE), Bln(FALSE)}
ArithKinds == {"add", "sub", "mul", "div"}
CompareKinds == {"eql", "leq", "lth"}

\* the literal scenarios of the documentation
Scenarios ==
    { Let("v", Num(21), Add(Var("v"), Var("v"))),
      Div(Num(30), Num(4)), Div(Num(22), Num(4)), Div(Num(13), Num(2)),
      Eql(Num(-1), Num(1)), Eql(Num(13), Num(13)),
      Leq(Num(-3), Num(-3)), Leq(Num(-2), Num(-3)), Lth(Num(3), Num(3)),
      Not(Num(2)), Not(Num(-2)), Not(Num(0)),
      Let("x", Let("x", Num(2), Add(Var("x"), Num(3))), Mul(Var("x"), Num(10))) }

FlatExprs ==
    {BinaryExpression(k, a, b) : k \in ArithKinds \cup CompareKinds, a \in Nums, b \in Nums}
    \cup {UnaryExpression(k, a) : k \in UnaryKinds, a \in Nums \cup Blns}

NestedExprs ==
    {BinaryExpression(k1, BinaryExpression(k2, a, b), c) :
        k1 \in ArithKinds, k2 \in ArithKinds, a \in Nums, b \in Nums, c \in {Num(-1), Num(2)}}
    \cup {BinaryExpression(k1, c, BinaryExpression(k2, a, b)) :
        k1 \in ArithKinds, k2 \in ArithKinds, a \in Nums, b \in Nums, c \in {Num(-1), Num(2)}}
    \cup {UnaryExpression(k1, BinaryExpression(k2, a, b)) :
        k1 \in UnaryKinds, k2 \in {"sub", "eql", "lth"}, a \in Nums, b \in Nums}
    \cup {BinaryExpression(k1, UnaryExpression(k2, a), b) :
        k1 \in CompareKinds, k2 \in UnaryKinds, a \in Nums, b \in Nums}

LetBodies(x) ==
    {Var(x), Add(Var(x), Var(x)), Sub(Num(1), Var(x)), Neg(Var(x)), Not(Var(x)),
     Div(Var(x), Num(2)), Eql(Var(x), Num(0))}

LetExprs ==
    {Let("x", a, b) : a \in Nums, b \in LetBodies("x")}
    \cup {Let("x", Let("x", a, Add(Var("x"), Num(1))), b) : a \in Nums, b \in LetBodies("x")}
    \cup {Let("x", a, Let("x", Mul(Var("x"), Num(2)), b)) : a \in Nums, b \in LetBodies("x")}
    \cup {Let("x", a, Let("y", c, Sub(Var("x"), Var("y")))) : a \in Nums, c \in Nums}
    \cup {Add(Let("x", a, Var("x")), Let("x", c, Var("x"))) : a \in Nums, c \in Nums}

\* what the pipeline of CodeGenForRegisterAllocation accepts
StraightLinePrograms == Scenarios \cup FlatExprs \cup NestedExprs \cup LetExprs

Conds == Blns \cup {Num(0), Num(MaxNum), Num(-1), Lth(Num(1), Num(MaxNum)), Div(Num(1), Num(0))}
Branches ==
    Blns \cup {Num(0), Num(MaxNum), Num(-MaxNum), Div(Num(3), Num(0)),
               Add(Num(MaxNum), Num(MaxNum)), Not(Num(MaxNum))}

ControlExprs ==
    {BinaryExpression(k, l, r) : k \in {"and", "or"}, l \in Conds, r \in Branches}
    \cup {IfThenElse(c, t, f) : c \in Conds, t \in Branches, f \in Branches}
    \cup {BinaryExpression(k1, l, BinaryExpression(k2, m, r)) :
            k1 \in {"and", "or"}, k2 \in {"and", "or"}, l \in Blns, m \in Blns,
            r \in {Bln(TRUE), Num(0), Div(Num(3), Num(0))}}
    \cup {BinaryExpression(k1, BinaryExpression(k2, l, m), r) :
            k1 \in {"and", "or"}, k2 \in {"and", "or"}, l \in Blns, m \in Blns,
            r \in {Bln(TRUE), Num(0), Div(Num(3), Num(0))}}
    \cup {IfThenElse(BinaryExpression(k, l, m), t, Mul(Num(2), Add(Num(3), Num(4)))) :
            k \in {"and", "or"}, l \in Blns, m \in Blns, t \in {Num(3), Div(Num(2), Num(0))}}
    \cup {IfThenElse(c, IfThenElse(d, Num(1), Num(2)), Let("x", Num(3), Neg(Var("x")))) :
            c \in Blns, d \in Blns}
    \cup {Let("x", a, BinaryExpression(k, Var("x"), Div(Num(1), Var("x")))) :
            k \in {"and", "or"}, a \in Nums}
    \cup {IfThenElse(Lth(Num(2), Num(3)), Num(1), Num(2)), And(Bln(FALSE), Div(Num(3), Num(0))),
          Or(Bln(TRUE), Div(Num(3), Num(0)))}

FnBodies(v) ==
    {Var(v), Mul(Var(v), Var(v)), Add(Var(v), Num(1)), Num(MaxNum),
     IfThenElse(Lth(Var(v), Num(0)), Neg(Var(v)), Var(v)),
     App(Fn("w", Sub(Var("w"), Var(v))), Num(1)),
     App(Fn(v, Add(Var(v), Num(1))), Mul(Var(v), Num(2)))}

FnExprs ==
    {App(Fn("v", b), a) : b \in FnBodies("v"), a \in Nums \cup {Add(Num(3), Num(4))}}
    \cup {Let("f", Fn("v", b), App(Var("f"), App(Var("f"), a))) : b \in FnBodies("v"), a \in Nums}
    \cup {Let("f", Fn("v", b), Add(App(Var("f"), a), App(Var("f"), Num(1)))) :
            b \in FnBodies("v"), a \in Nums}
    \cup {Add(a, App(Fn("v", b), a)) : b \in FnBodies("v"), a \in Nums}
    \cup {Fn("v", Var("v"))}

\* what the code generator of CodeGenFunctions accepts
BranchingPrograms == ControlExprs \cup FnExprs

\* expressions with a reference that no enclosing Let or Fn binds
OpenExprs ==
    { Var("y"), Add(Var("y"), Num(1)), Neg(Var("y")),
      Let("x", Var("x"), Var("x")),
      Let("x", Num(1), Add(Var("x"), Var("y"))),
      Let("x", Num(1), Let("y", Var("y"), Var("x"))) }

\* the same name bound again in a definition, in a body and in a branch
ScopedExprs ==
    { Let("x", Num(1), Let("x", Add(Var("x"), Num(1)), Var("x"))),
      Let("x", Num(1), Let("y", Var("x"), Let("x", Var("y"), Add(Var("x"), Var("y"))))),
      Let("x", Let("x", Num(2), Add(Var("x"), Num(3))), Mul(Var("x"), Num(10))),
      Let("x0", Num(MaxNum), Add(Var("x0"), Var("x0"))) }

ScopedBranches ==
    { Let("x", Num(3), IfThenElse(Lth(Var("x"), Var("x")), Num(1), Num(2))),
      Let("x", Let("x", Num(3), IfThenElse(Lth(Var("x"), Var("x")), Num(1), Num(2))), Num(3)),
      Let("x", Num(1), IfThenElse(Var("x"), Let("x", Num(2), Var("x")), Var("x"))),
      Let("x", Num(0), And(Let("x", Num(1), Var("x")), Var("x"))),
      Or(Let("x", Num(0), Var("x")), Let("x", Num(MaxNum), Var("x"))) }

ScopedFns ==
    { Let("x", Fn("x", Add(Var("x"), Num(1))), App(Var("x"), Var("x"))),
      Let("v", Num(MaxNum), App(Fn("v", Add(Var("v"), Num(1))), Var("v"))),
      App(Fn("x", Let("x", Mul(Var("x"), Num(2)), Var("x"))), Num(MaxNum)),
      Let("f", Fn("v", Add(Var("v"), Var("w"))), App(Var("f"), Num(1))),
      Let("v", Fn("v", Mul(Var("v"), Var("v"))), App(Var("v"), Add(Num(3), Num(4)))) }

\* what each renamer is given
RegAllocPrograms == StraightLinePrograms \cup ScopedExprs \cup OpenExprs
FunctionsPrograms == BranchingPrograms \cup ScopedExprs \cup ScopedBranches \cup ScopedFns
                        \cup OpenExprs
ControlFlowPrograms == ScopedExprs \cup ScopedBranches \cup OpenExprs \cup LetExprs

(***************************************************************************)
(* Instruction lists given to RegAllocator directly, as its doctests do:   *)
(* Program(1000, env={}, insts=insts).                                     *)
(***************************************************************************)
\* no expression: the program was built from instructions
NoExp == [k |-> "none"]

OptimizeDoctests ==
    { <<Asm_Addi("a", "x0", 3)>>,
      <<Asm_Addi("a", "x0", 1), Asm_Slti("b", "a", 2)>>,
      <<Asm_Addi("a", "x0", 3), Asm_Slti("b", "a", 2), Asm_Xori("c", "b", 5)>>,
      <<Asm_Addi("sp", "sp", -1), Asm_Addi("a", "x0", 7), Asm_Sw("sp", 0, "a")>>,
      <<Asm_Addi("sp", "sp", -1), Asm_Addi("a", "x0", 7), Asm_Sw("sp", 0, "a"),
        Asm_Lw("sp", 0, "b"), Asm_Addi("c", "b", 6)>>,
      <<Asm_Addi("a", "x0", 3), Asm_Addi("b", "x0", 4), Asm_Add("c", "a", "b")>>,
      <<Asm_Addi("a", "x0", 28), Asm_Addi("b", "x0", 4), Asm_Div("c", "a", "b")>>,
      <<Asm_Addi("a", "x0", 3), Asm_Addi("b", "x0", 4), Asm_Mul("c", "a", "b")>>,
      <<Asm_Addi("a", "x0", 3), Asm_Addi("b", "x0", 4), Asm_Xor("c", "a", "b")>>,
      <<Asm_Addi("a", "x0", 3), Asm_Addi("b", "x0", 4), Asm_Slt("c", "a", "b")>>,
      <<Asm_Addi("a", "x0", 3), Asm_Addi("b", "x0", 4), Asm_Slt("c", "b", "a")>>,
      <<Asm_Jal("a", 30)>>,
      <<Asm_Addi("a", "x0", 30), Asm_Jalr("b", "a", 0)>>,
      <<Asm_Addi("a", "x0", 3), Asm_Addi("b", "a", 0), Asm_Beq("a", "b", 30)>> }

\* two literals and one instruction over them, with every choice of sources
ThreeAddress ==
    {<<Asm_Addi("a", "x0", n), Asm_Addi("b", "x0", m),
       [op |-> o, rd |-> "c", rs1 |-> s1, rs2 |-> s2]>> :
        n \in -MaxNum..MaxNum, m \in -MaxNum..MaxNum, o \in StdOps,
        s1 \in {"a", "b", "x0"}, s2 \in {"a", "b"}}
    \cup {<<Asm_Addi("a", "x0", n), [op |-> o, rd |-> "b", rs1 |-> "a", imm |-> m]>> :
        n \in -MaxNum..MaxNum, m \in -MaxNum..MaxNum, o \in ImmOps}

\* words pushed on the stack through sp or kept at a fixed address
StackLists ==
    {<<Asm_Addi("sp", "sp", -1), Asm_Addi("a", "x0", n), Asm_Sw("sp", 0, "a"),
       Asm_Lw("sp", 0, "b"), Asm_Addi("c", "b", m)>> : n \in -MaxNum..MaxNum, m \in {1, 6}}
    \cup {<<Asm_Addi("sp", "sp", -2), Asm_Addi("a", "x0", n), Asm_Sw("sp", 0, "a"),
            Asm_Addi("b", "a", 1), Asm_Sw("sp", 1, "b"), Asm_Lw("sp", 0, "c"),
            Asm_Addi("sp", "sp", 2)>> : n \in -MaxNum..MaxNum}
    \cup {<<Asm_Addi("a", "x0", n), Asm_Sw("x0", 500, "a"), Asm_Lw("x0", 500, "b")>> :
            n \in -MaxNum..MaxNum}

\* every operand is one of x0, sp, ra
PhysicalLists ==
    { <<Asm_Addi("sp", "sp", -1)>>,
      <<Asm_Addi("sp", "sp", -1), Asm_Sw("sp", 0, "ra"), Asm_Lw("sp", 0, "ra"),
        Asm_Addi("sp", "sp", 1)>>,
      <<Asm_Add("ra", "sp", "x0")>>,
      <<Asm_Jal("x0", 1)>> }

\* a source that no earlier instruction wrote
UnwrittenSourceLists ==
    { <<Asm_Addi("b", "a", 1)>>,
      <<Asm_Addi("a", "x0", 1), Asm_Add("c", "a", "b")>>,
      <<Asm_Addi("a", "x0", 1), Asm_Add("c", "b", "a")>>,
      <<Asm_Sw("sp", -1, "a")>>,
      <<Asm_Addi("a", "x0", 1), Asm_Sw("b", 0, "a")>>,
      <<Asm_Lw("b", 0, "c")>>,
      <<Asm_Beq("a", "x0", 1)>>,
      <<Asm_Addi("a", "x0", 1), Asm_Beq("a", "b", 2)>>,
      <<Asm_Jalr("b", "a", 0)>>,
      <<Asm_Addi("a", "a", 1)>>,
      <<Asm_Add("a", "a", "x0")>>,
      <<Asm_Addi("a", "x0", 1), Asm_Add("b", "a", "b")>>,
      <<Asm_Lw("a", 0, "a")>> }

\* loads and stores at the low addresses of memory
LowMemoryLists ==
    { <<Asm_Addi("a", "x0", 7), Asm_Addi("b", "x0", 5), Asm_Sw("x0", 1, "b")>>,
      <<Asm_Addi("a", "x0", 7), Asm_Lw("x0", 1, "b")>>,
      <<Asm_Addi("a", "x0", 1), Asm_Addi("b", "x0", 5), Asm_Sw("a", 0, "b")>>,
      <<Asm_Addi("sp", "sp", -999), Asm_Addi("a", "x0", 7), Asm_Addi("b", "x0", 5),
        Asm_Sw("sp", 0, "b")>>,
      <<Asm_Addi("a", "x0", 7), Asm_Sw("x0", 0, "a"), Asm_Lw("x0", 0, "b")>> }

\* jumps and branches with a symbolic link or operand
JumpLists ==
    { <<Asm_Jal("a", 2), Asm_Addi("b", "x0", 1), Asm_Addi("c", "x0", 2)>>,
      <<Asm_Addi("a", "x0", 3), Asm_Jalr("b", "a", 0), Asm_Addi("c", "x0", 1)>>,
      <<Asm_Addi("a", "x0", 3), Asm_Jalr("b", "a", 7)>>,
      <<Asm_Addi("a", "x0", 0), Asm_Beq("a", "x0", 3), Asm_Addi("b", "x0", 1)>>,
      <<Asm_Addi("a", "x0", 1), Asm_Beq("a", "x0", 3), Asm_Addi("b", "x0", 1)>>,
      <<Asm_Jal("ra", 9)>> }

InstLists ==
    OptimizeDoctests \cup ThreeAddress \cup StackLists \cup PhysicalLists
        \cup UnwrittenSourceLists \cup LowMemoryLists \cup JumpLists

(***************************************************************************)
(* The pipeline.  variant tells which visitors the run uses: "RegAlloc"    *)
(* is the driver of CodeGenForRegisterAllocation, "Functions" the visitors *)
(* of CodeGenFunctions, "ControlFlow" the visitors of ControlFlow (which has *)
(* no allocator: a run ends with p.eval()) and "Insts" a program built     *)
(* from an instruction list, which starts as generated.  p is the program  *)
(* a doctest builds and evaluates as generated; prog is the program that   *)
(* is allocated, has its variable table reset by the driver and is         *)
(* evaluated.  The two programs share nothing; p is evaluated first.       *)
(***************************************************************************)
Init ==
    /\ variant \in {"RegAlloc", "Functions", "ControlFlow", "Insts"}
    /\ exp \in CASE variant = "RegAlloc" -> RegAllocPrograms
                [] variant = "Functions" -> FunctionsPrograms
                [] variant = "ControlFlow" -> ControlFlowPrograms
                [] variant = "Insts" -> {NoExp}
    /\ stage = IF variant = "Insts" THEN "generated" ELSE "parsed"
    /\ gen = GenVisitor
    /\ var_answer = ""
    /\ p \in IF variant = "Insts" THEN {Program(<<>>, insts) : insts \in InstLists}
             ELSE {Program(<<>>, <<>>)}
    /\ prog = p
    /\ opt = RegAllocator
    /\ steps = 0

\* rename_variables(parser.parse())
Rename ==
    /\ stage = "parsed"
    /\ IF variant = "RegAlloc"
       THEN LET r == ra_rename(exp, <<>>, 1)
            IN exp' = r.exp /\ stage' = IF r.err THEN "rename_error" ELSE "renamed"
       ELSE /\ exp' = IF variant = "Functions" THEN rename(exp, <<>>, 0).exp
                       ELSE cf_rename(exp, <<>>, 0).exp
            /\ stage' = "renamed"
    /\ UNCHANGED <<variant, gen, var_answer, p, prog, opt, steps>>

\* var_answer = exp.accept(GenVisitor(), prog)
Generate ==
    /\ stage = "renamed"
    /\ LET g == IF variant = "ControlFlow" THEN ControlFlow_GenVisitor ELSE GenVisitor
           s == accept(exp, [GenState(Program(<<>>, <<>>)) EXCEPT !.gv = g])
       IN /\ gen' = s.gv
          /\ var_answer' = s.ret
          /\ p' = s.prog
          /\ prog' = s.prog
          /\ stage' = IF s.prog.fault THEN "generate_error" ELSE "generated"
    /\ UNCHANGED <<variant, exp, opt, steps>>

\* one instruction of p.eval()
Eval ==
    /\ stage = "generated"
    /\ Running(p)
    /\ steps < MaxSteps
    /\ p' = Exec(p)
    /\ steps' = steps + 1
    /\ UNCHANGED <<variant, exp, stage, gen, var_answer, prog, opt>>

\* opt = perform_register_allocation(prog); prog.reset_env()
Allocate ==
    /\ stage = "generated"
    /\ variant # "ControlFlow"
    /\ ~Running(p) \/ steps >= MaxSteps
    /\ LET a == optimize(prog)
       IN /\ opt' = a.o
          /\ IF a.err THEN stage' = "alloc_error" /\ prog' = prog
             ELSE /\ stage' = "allocated"
                  /\ prog' = IF variant = "Insts" THEN set_insts(prog, a.insts)
                             ELSE reset_env(set_insts(prog, a.insts))
    /\ steps' = 0
    /\ UNCHANGED <<variant, exp, gen, var_answer, p>>

\* one instruction of prog.eval()
Run ==
    /\ stage = "allocated"
    /\ Running(prog)
    /\ steps < MaxSteps
    /\ prog' = Exec(prog)
    /\ steps' = steps + 1
    /\ UNCHANGED <<variant, exp, stage, gen, var_answer, p, opt>>

Next == Rename \/ Generate \/ Eval \/ Allocate \/ Run

Spec == Init /\ [][Next]_vars

(***************************************************************************)
(* Properties.                                                             *)
(***************************************************************************)
Start ==
    [GenState(Program(<<>>, <<>>)) EXCEPT
        !.gv = IF variant = "ControlFlow" THEN ControlFlow_GenVisitor ELSE GenVisitor]
Generated == stage \in {"generated", "allocated", "alloc_error"}
\* the value the allocator reports for the answer of the driver's run
Answer == RegAllocator_get_val(opt, prog, var_answer)

\* the code of the first operand of a top-level And, Or or IfThenElse, and
\* the generator right after the Beq that tests it
CondGen == accept(IF exp.k = "if" THEN exp.cond ELSE exp.left, Start)
AfterBeq == Emit(next_var_name(CondGen), Asm_Beq(CondGen.ret, "x0", None))
\* the pcs of the instructions a visit appended to the program of s
Range(s, visited) == Len(s.prog.insts) .. Len(visited.prog.insts) - 1
\* the instruction at p's pc (while p runs) was generated for the operand
InRange(r) == Running(p) /\ p.pc \in r
Known(var) == Defined(p, var)

AndRight == accept(exp.right, AfterBeq)
C2_ShortCircuitAnd ==
    (Generated /\ exp.k = "and") =>
        /\ InRange(Range(AfterBeq, AndRight)) => get_val(p, CondGen.ret) # 0
        /\ (~Running(p) /\ Known(CondGen.ret) /\ get_val(p, CondGen.ret) = 0) =>
              (Halted(p) /\ Known(var_answer) /\ get_val(p, var_answer) = 0)
C2_Witness ==
    /\ exp = And(Bln(FALSE), Div(Num(3), Num(0)))
    /\ stage = "generated" /\ Halted(p) /\ get_val(p, var_answer) = 0

\* C3: in the code of Or(l, r), when l is not 0 the result is 1 and the pc
\* never enters the instructions of r; when l is 0 the result is the value
\* of r.
OrSkip == Emit(Emit(AfterBeq, Asm_Addi(next_var_name(CondGen).ret, "x0", 1)),
               Asm_Jal("x0", None))
OrRight == accept(exp.right, OrSkip)
C3_ShortCircuitOr ==
    (Generated /\ exp.k = "or") =>
        /\ InRange(Range(OrSkip, OrRight)) => get_val(p, CondGen.ret) = 0
        /\ (~Running(p) /\ Known(CondGen.ret) /\ get_val(p, CondGen.ret) # 0) =>
              (Halted(p) /\ Known(var_answer) /\ get_val(p, var_answer) = 1)
        /\ (Halted(p) /\ get_val(p, CondGen.ret) = 0) =>
              (Known(OrRight.ret) /\ get_val(p, var_answer) = get_val(p, OrRight.ret))
C3_Witness ==
    /\ exp = Or(Bln(TRUE), Div(Num(3), Num(0)))
    /\ stage = "generated" /\ Halted(p) /\ get_val(p, var_answer) = 1

\* C4: in the code of IfThenElse(c, e0, e1) the pc enters the instructions
\* of e0 only when c is not 0 and those of e1 only when c is 0, and the
\* result is the value of the branch that c selects.
ThenGen == accept(exp.e0, AfterBeq)
ElseStart == Emit(Emit(ThenGen, Asm_Add(next_var_name(CondGen).ret, ThenGen.ret, "x0")),
                  Asm_Jal("x0", None))
ElseGen == accept(exp.e1, ElseStart)
C4_OneBranch ==
    (Generated /\ exp.k = "if") =>
        /\ InRange(Range(AfterBeq, ThenGen)) => get_val(p, CondGen.ret) # 0
        /\ InRange(Range(ElseStart, ElseGen)) => get_val(p, CondGen.ret) = 0
        /\ (Halted(p) /\ get_val(p, CondGen.ret) # 0) =>
              /\ Known(ThenGen.ret) /\ get_val(p, var_answer) = get_val(p, ThenGen.ret)
              /\ ~Known(ElseGen.ret)
        /\ (Halted(p) /\ get_val(p, CondGen.ret) = 0) =>
              /\ Known(ElseGen.ret) /\ get_val(p, var_answer) = get_val(p, ElseGen.ret)
              /\ ~Known(ThenGen.ret)
        /\ (~Running(p) /\ Known(CondGen.ret) /\ p.fault) =>
              \/ get_val(p, CondGen.ret) # 0 /\ ~Known(ElseGen.ret)
              \/ get_val(p, CondGen.ret) = 0 /\ ~Known(ThenGen.ret)
C4_Witness ==
    /\ exp = IfThenElse(Bln(FALSE), Div(Num(3), Num(0)), Num(MaxNum))
    /\ stage = "generated" /\ Halted(p) /\ get_val(p, var_answer) = MaxNum

\* C5: for a closed expression of Num, Add, Sub, Mul, Div (divisor not 0),
\* Neg, Let and Var the generated code leaves in the returned variable the
\* integer EvalVisitor computes; 30/4 = 7, 22/4 = 5, let v <- 21 in v + v = 42.
RECURSIVE IsArith(_)
IsArith(e) ==
    CASE e.k \in {"num", "var"} -> TRUE
      [] e.k \in ArithKinds -> IsArith(e.left) /\ IsArith(e.right)
      [] e.k = "neg" -> IsArith(e.exp)
      [] e.k = "let" -> IsArith(e.exp_def) /\ IsArith(e.exp_body)
      [] OTHER -> FALSE
Finished(e, v) == exp = e /\ Halted(p) /\ Known(var_answer) /\ get_val(p, var_answer) = v
C5_CodeMatchesEval ==
    (Generated /\ ~Running(p)) =>
        /\ (IsArith(exp) /\ ~eval(exp, <<>>).err) =>
              /\ Halted(p) /\ Known(var_answer)
              /\ get_val(p, var_answer) = eval(exp, <<>>).val
        /\ exp = Div(Num(30), Num(4)) => Finished(exp, 7)
        /\ exp = Div(Num(22), Num(4)) => Finished(exp, 5)
        /\ exp = ra_rename(Let("v", Num(21), Add(Var("v"), Var("v"))), <<>>, 1).exp =>
              Finished(exp, 42)
C5_Witness ==
    /\ Generated
    /\ Finished(ra_rename(Let("v", Num(21), Add(Var("v"), Var("v"))), <<>>, 1).exp, 42)

\* the code of the operands of a top-level binary or unary expression
LeftGen == accept(exp.left, Start)
RightGen == accept(exp.right, LeftGen)
OperandGen == accept(exp.exp, Start)

\* C6: the code of Eql leaves (diff < 1) - (diff < 0), diff = a - b, in the
\* result: 1 if a = b and 0 otherwise, for negative, zero and positive a, b.
C6_Equality ==
    (Generated /\ exp.k = "eql" /\ Halted(p)) =>
        LET a == get_val(p, LeftGen.ret)
            b == get_val(p, RightGen.ret)
            diff == a - b
        IN /\ get_val(p, var_answer) = (IF diff < 1 THEN 1 ELSE 0) - (IF diff < 0 THEN 1 ELSE 0)
           /\ get_val(p, var_answer) = (IF a = b THEN 1 ELSE 0)
C6_Witness == Generated /\ Finished(Eql(Num(-1), Num(1)), 0)

\* C7: the code of Leq(a, b) yields 1 if a <= b and 0 otherwise, the code of
\* Lth(a, b) yields 1 if a < b and 0 otherwise.
C7_Comparison ==
    (Generated /\ exp.k \in {"leq", "lth"} /\ Halted(p)) =>
        LET a == get_val(p, LeftGen.ret)
            b == get_val(p, RightGen.ret)
        IN /\ exp.k = "leq" => get_val(p, var_answer) = (IF a <= b THEN 1 ELSE 0)
           /\ exp.k = "lth" => get_val(p, var_answer) = (IF a < b THEN 1 ELSE 0)
           /\ exp = Leq(Num(-3), Num(-3)) => get_val(p, var_answer) = 1
           /\ exp = Leq(Num(-2), Num(-3)) => get_val(p, var_answer) = 0
           /\ exp = Lth(Num(3), Num(3)) => get_val(p, var_answer) = 0
C7_Witness == Generated /\ Finished(Leq(Num(-3), Num(-3)), 1)

\* C8: the code of Not leaves 1 if the operand is 0 and 0 if it is any other
\* value, positive or negative.
C8_Not ==
    (Generated /\ exp.k = "not" /\ Halted(p)) =>
        /\ get_val(p, var_answer) = (IF get_val(p, OperandGen.ret) = 0 THEN 1 ELSE 0)
        /\ exp = Not(Num(2)) => get_val(p, var_answer) = 0
        /\ exp = Not(Num(-2)) => get_val(p, var_answer) = 0
        /\ exp = Not(Num(0)) => get_val(p, var_answer) = 1
C8_Witness == Generated /\ Finished(Not(Num(-2)), 0)

\* the code of a top-level App(Fn(formal, body), actual)
TopApp == exp.k = "app" /\ exp.function.k = "fn"
FnGen == accept(exp.function, Start)
FnPrologue ==
    LET s0 == next_fn_value(Start)
    IN Emit(Emit(Emit(Emit(s0, Asm_Jal(FnGen.ret, None)), Asm_Addi("sp", "sp", -1)),
                 Asm_Sw("sp", 0, "ra")), Asm_Add(exp.function.formal, "a0", "x0"))
FnBody == accept(exp.function.body, FnPrologue)
ActualGen == accept(exp.actual, FnGen)
\* the pcs of the first body instruction, of the function's return and of the call
EntryPc == Len(Start.prog.insts) + 1
ReturnPc == Len(FnGen.prog.insts) - 1
CallPc == Len(ActualGen.prog.insts) + 1

\* C9: the Jalr of App(f, arg) moves the pc to the first body instruction,
\* the body runs with the formal equal to the value of arg, the function's
\* return moves the pc to the instruction after the Jalr, and the result
\* variable receives the value of the body; (fn v => v * v) (3 + 4) is 49.
C9_Application ==
    /\ [][(stage = "generated" /\ TopApp /\ Running(p) /\ p.pc = CallPc) =>
             (p'.pc = EntryPc /\ p'.pc = get_val(p, FnGen.ret))]_vars
    /\ [][(stage = "generated" /\ TopApp /\ Running(p) /\ p.pc = ReturnPc) =>
             p'.pc = CallPc + 1]_vars
    /\ []((Generated /\ TopApp) =>
             /\ (Running(p) /\ p.pc \in Len(FnPrologue.prog.insts) .. Len(FnBody.prog.insts)) =>
                   (Known(ActualGen.ret) /\
                    get_val(p, exp.function.formal) = get_val(p, ActualGen.ret))
             /\ ~Running(p) =>
                   (Halted(p) /\ get_val(p, var_answer) = get_val(p, FnBody.ret))
             /\ exp = rename(App(Fn("v", Mul(Var("v"), Var("v"))), Add(Num(3), Num(4))),
                             <<>>, 0).exp
                   => (~Running(p) => get_val(p, var_answer) = 49))
C9_Witness ==
    /\ Generated
    /\ Finished(rename(App(Fn("v", Mul(Var("v"), Var("v"))), Add(Num(3), Num(4))), <<>>, 0).exp,
                49)

\* the names of the binding sites (Let identifiers, Fn formals) of a tree
RECURSIVE Binders(_)
Binders(e) ==
    CASE e.k \in {"var", "bln", "num"} -> <<>>
      [] e.k \in BinaryKinds -> Binders(e.left) \o Binders(e.right)
      [] e.k \in UnaryKinds -> Binders(e.exp)
      [] e.k = "let" -> <<e.identifier>> \o Binders(e.exp_def) \o Binders(e.exp_body)
      [] e.k = "fn" -> <<e.formal>> \o Binders(e.body)
      [] e.k = "app" -> Binders(e.function) \o Binders(e.actual)
      [] e.k = "if" -> Binders(e.cond) \o Binders(e.e0) \o Binders(e.e1)
      [] OTHER -> <<>>
Distinct(names) == \A i, j \in DOMAIN names : i # j => names[i] # names[j]

\* C10: after RenameVisitor has traversed a tree no two binding sites carry
\* the same name.
C10_DistinctBinders ==
    stage \notin {"parsed", "rename_error"} => Distinct(Binders(exp))
C10_Witness ==
    /\ stage = "renamed"
    /\ exp = Let("x_1", Let("x_2", Num(2), Add(Var("x_2"), Num(3))), Mul(Var("x_1"), Num(10)))

\* ren is src with its references resolved: scope maps an original name to
\* the name that its nearest enclosing binding site carries in ren, and each
\* binding site of ren carries a new name
RECURSIVE Resolves(_, _, _)
Resolves(src, ren, scope) ==
    /\ ren.k = src.k
    /\ CASE src.k = "var" ->
                src.identifier \in DOMAIN scope => ren.identifier = scope[src.identifier]
         [] src.k \in {"bln", "num"} -> ren = src
         [] src.k \in BinaryKinds ->
                Resolves(src.left, ren.left, scope) /\ Resolves(src.right, ren.right, scope)
         [] src.k \in UnaryKinds -> Resolves(src.exp, ren.exp, scope)
         [] src.k = "let" ->
                /\ ren.identifier # src.identifier
                /\ Resolves(src.exp_def, ren.exp_def, scope)
                /\ Resolves(src.exp_body, ren.exp_body,
                            (src.identifier :> ren.identifier) @@ scope)
         [] src.k = "fn" ->
                /\ ren.formal # src.formal
                /\ Resolves(src.body, ren.body, (src.formal :> ren.formal) @@ scope)
         [] src.k = "app" ->
                Resolves(src.function, ren.function, scope)
                    /\ Resolves(src.actual, ren.actual, scope)
         [] src.k = "if" ->
                /\ Resolves(src.cond, ren.cond, scope)
                /\ Resolves(src.e0, ren.e0, scope)
                /\ Resolves(src.e1, ren.e1, scope)

\* C11: a renaming that completes leaves in every Var the name of its nearest
\* enclosing binding of the original name; the references of the definition
\* of let x <- def in body resolve in the enclosing environment, never to x.
C11_NearestBinding ==
    [][(stage = "parsed" /\ stage' = "renamed") => Resolves(exp, exp', <<>>)]_vars
C11_Witness ==
    /\ stage = "renamed"
    /\ exp = Let("x_1", Num(1), Let("x_2", Add(Var("x_1"), Num(1)), Var("x_2")))

\* ren is src with every reference that no enclosing binding site of src
\* binds left as it was
RECURSIVE Untouched(_, _, _)
Untouched(src, ren, bound) ==
    /\ ren.k = src.k
    /\ CASE src.k = "var" -> src.identifier \notin bound => ren.identifier = src.identifier
         [] src.k \in {"bln", "num"} -> ren = src
         [] src.k \in BinaryKinds ->
                Untouched(src.left, ren.left, bound) /\ Untouched(src.right, ren.right, bound)
         [] src.k \in UnaryKinds -> Untouched(src.exp, ren.exp, bound)
         [] src.k = "let" ->
                /\ Untouched(src.exp_def, ren.exp_def, bound)
                /\ Untouched(src.exp_body, ren.exp_body, bound \cup {src.identifier})
         [] src.k = "fn" -> Untouched(src.body, ren.body, bound \cup {src.formal})
         [] src.k = "app" ->
                Untouched(src.function, ren.function, bound)
                    /\ Untouched(src.actual, ren.actual, bound)
         [] src.k = "if" ->
                /\ Untouched(src.cond, ren.cond, bound)
                /\ Untouched(src.e0, ren.e0, bound)
                /\ Untouched(src.e1, ren.e1, bound)

\* C12: the renamer completes on every tree, and a Var whose name has no
\* mapping keeps its name.
C12_PermissiveRenamer ==
    [][stage = "parsed" => (stage' = "renamed" /\ Untouched(exp, exp', {}))]_vars

PhysicalRegisters == {"x0", "sp", "ra", "a0", "a1", "a2", "a3"}
\* the register operands of an instruction, in the order the allocator
\* handles them: the sources, then the destination
SourceOperands(i) ==
    CASE i.op \in ImmOps -> <<i.rs1>>
      [] i.op \in StdOps -> <<i.rs1, i.rs2>>
      [] i.op = "lw" -> <<i.rs1>>
      [] i.op = "sw" -> <<i.reg, i.rs1>>
      [] i.op = "beq" -> <<i.rs1, i.rs2>>
      [] i.op = "jal" -> <<>>
      [] i.op = "jalr" -> <<i.rs>>
DestOperands(i) ==
    CASE i.op \in ImmOps \cup StdOps \cup {"jal", "jalr"} -> <<i.rd>>
      [] i.op = "lw" -> <<i.reg>>
      [] OTHER -> <<>>
RegisterOperands(i) ==
    {SourceOperands(i)[n] : n \in DOMAIN SourceOperands(i)}
        \cup {DestOperands(i)[n] : n \in DOMAIN DestOperands(i)}
\* the input of the allocator has a name that is not a register
HasSymbolicOperand ==
    \E n \in DOMAIN p.insts : ~(RegisterOperands(p.insts[n]) \subseteq PhysicalRegisters)

\* C13: every register operand (source, destination, base) of every
\* instruction of the program that optimize installs is one of x0, sp, ra,
\* a0, a1, a2, a3.
C13_PhysicalOperands ==
    stage = "allocated" =>
        \A n \in DOMAIN prog.insts : RegisterOperands(prog.insts[n]) \subseteq PhysicalRegisters
C13_Witness ==
    /\ stage = "allocated"
    /\ HasSymbolicOperand
    /\ p.insts = <<Asm_Addi("a", "x0", 3), Asm_Addi("b", "x0", 4), Asm_Add("c", "a", "b")>>
    /\ Len(prog.insts) = 8

\* the operands of an instruction that the allocator keeps in memory
Spilled(names) == Cardinality({n \in DOMAIN names : names[n] \notin DEFAULT_REGS})
\* the number of instructions that replace instruction i: a load for each
\* spilled source, i itself, and a store for a spilled destination (an Addi
\* and a Sw for the link of a jump)
Expansion(i) ==
    1 + Spilled(SourceOperands(i))
      + (IF i.op \in {"jal", "jalr"} THEN 2 ELSE 1) * Spilled(DestOperands(i))
RECURSIVE ExpandedLen(_)
ExpandedLen(insts) ==
    IF insts = <<>> THEN 0 ELSE Expansion(Head(insts)) + ExpandedLen(Tail(insts))
AnySpilled(insts) ==
    \E n \in DOMAIN insts : Spilled(SourceOperands(insts[n])) + Spilled(DestOperands(insts[n])) > 0

\* C14 as stated: the list optimize installs for a non-empty input is
\* strictly longer than the input, whatever the operands.
C14_StrictlyLonger ==
    (stage = "allocated" /\ Len(p.insts) > 0) => Len(prog.insts) > Len(p.insts)
\* C14 amended: each instruction is replaced by itself with a load before it
\* for each source outside x0, sp, ra and a store after it for a destination
\* outside x0, sp, ra; the installed list is never shorter than the input and
\* is strictly longer exactly when some operand is outside x0, sp, ra.
C14_LongerWhenSpilled ==
    stage = "allocated" =>
        /\ Len(prog.insts) = ExpandedLen(p.insts)
        /\ Len(prog.insts) >= Len(p.insts)
        /\ Len(prog.insts) > Len(p.insts) <=> AnySpilled(p.insts)
C14_Witness ==
    /\ stage = "allocated"
    /\ p.insts = <<Asm_Addi("sp", "sp", -1), Asm_Sw("sp", 0, "ra"), Asm_Lw("sp", 0, "ra"),
                   Asm_Addi("sp", "sp", 1)>>
    /\ Len(prog.insts) = Len(p.insts)

\* the names an instruction list writes before its n-th instruction
WrittenBefore(insts, n) ==
    {DestOperands(insts[m])[1] : m \in {m \in 1..(n - 1) : DestOperands(insts[m]) # <<>>}}
\* some instruction reads a name outside x0, sp, ra that no earlier
\* instruction of the list wrote
UnallocatedSource(insts) ==
    \E n \in DOMAIN insts : \E k \in DOMAIN SourceOperands(insts[n]) :
        /\ SourceOperands(insts[n])[k] \notin DEFAULT_REGS
        /\ SourceOperands(insts[n])[k] \notin WrittenBefore(insts, n)

\* C15: when an instruction reads a symbolic variable to which no earlier
\* instruction gave a slot, optimize stops with an error and installs no
\* program.
C15_FailFast ==
    (stage \in {"allocated", "alloc_error"} /\ UnallocatedSource(p.insts)) =>
        (stage = "alloc_error" /\ prog.insts = p.insts)

\* C16: in the driver of CodeGenForRegisterAllocation allocation completes,
\* the result variable is the destination of an emitted instruction and has
\* a slot, and the variable table of the allocated run never holds it: the
\* answer is memory[slot(r)].
C16_AnswerThroughSlot ==
    (variant = "RegAlloc" /\ stage \in {"allocated", "alloc_error"}) =>
        /\ stage = "allocated"
        /\ \E n \in DOMAIN p.insts : DestOperands(p.insts[n]) = <<var_answer>>
        /\ Declared(opt, var_answer)
        /\ ~Defined(prog, var_answer)
        /\ Answer = get_mem(prog, opt.var_to_mem[var_answer])
        /\ (Halted(p) /\ Halted(prog)) => Answer = get_val(p, var_answer)
C16_Witness ==
    /\ variant = "RegAlloc" /\ stage = "allocated" /\ Halted(prog)
    /\ exp = ra_rename(Let("v", Num(21), Add(Var("v"), Var("v"))), <<>>, 1).exp
    /\ Answer = 42

\* the input list is straight-line code followed by one Jal or Jalr whose
\* link is a symbolic variable
LastInst == p.insts[Len(p.insts)]
JumpWithLink ==
    /\ Len(p.insts) > 0
    /\ LastInst.op \in {"jal", "jalr"}
    /\ LastInst.rd \notin DEFAULT_REGS
    /\ \A n \in 1..(Len(p.insts) - 1) : p.insts[n].op \in ImmOps \cup StdOps

\* C17: after the run of the allocated Jal(rd, L) or Jalr(rd, rs, off) the
\* pc is the jump target and memory[slot(rd)] holds the return address, a
\* value greater than 0.
C17_JumpKeepsLink ==
    (stage = "allocated" /\ JumpWithLink /\ Halted(p) /\ ~Running(prog)) =>
        /\ prog.pc = p.pc
        /\ LastInst.op = "jal" => prog.pc = LastInst.lab
        /\ LastInst.op = "jalr" => prog.pc = get_val(p, LastInst.rs) + LastInst.offset
        /\ Declared(opt, LastInst.rd)
        /\ RegAllocator_get_val(opt, prog, LastInst.rd) > 0

\* x0 is the destination of instruction i, and i is not a jump that
\* discards its link
WritesZero(i) == DestOperands(i) = <<"x0">> /\ i.op \notin {"jal", "jalr"}

\* C19: while a generated program and its allocated rewrite run, x0 is 0; no
\* instruction emitted by GenVisitor or by RegAllocator writes x0 other than
\* a Jal/Jalr that discards its link; x0 has no slot.
C19_ZeroRegister ==
    (variant \in {"RegAlloc", "Functions"} /\ Generated) =>
        /\ get_val(p, "x0") = 0 /\ p.env["x0"] = 0
        /\ get_val(prog, "x0") = 0 /\ prog.env["x0"] = 0
        /\ \A n \in DOMAIN p.insts : ~WritesZero(p.insts[n])
        /\ \A n \in DOMAIN prog.insts : ~WritesZero(prog.insts[n])
        /\ "x0" \notin DOMAIN opt.var_to_mem
C19_Witness ==
    /\ variant = "Functions" /\ stage = "allocated" /\ exp.k = "and"
    /\ \E n \in DOMAIN prog.insts : prog.insts[n].op = "jal" /\ prog.insts[n].rd = "x0"
    /\ Halted(p) /\ p.env["x0"] = 0
    /\ prog.pc > 0 /\ prog.env["x0"] = 0

\* the input list has no jump or branch and reads no name before an
\* instruction wrote it
StraightLine(insts) ==
    /\ \A n \in DOMAIN insts : insts[n].op \in ImmOps \cup StdOps \cup {"lw", "sw"}
    /\ ~UnallocatedSource(insts)
\* the symbolic variables of the input
SymbolicVariables(insts) ==
    UNION {RegisterOperands(insts[n]) : n \in DOMAIN insts} \ DEFAULT_REGS
\* the memory addresses the loads and stores of a run touch
RECURSIVE AccessedFrom(_, _)
AccessedFrom(pr, acc) ==
    IF ~Running(pr) THEN acc
    ELSE LET i == CurInst(pr)
         IN AccessedFrom(Exec(pr),
                         IF i.op \in {"lw", "sw"}
                         THEN acc \cup {i.offset + get_val(pr, i.rs1)} ELSE acc)
Accessed(insts) == AccessedFrom(Program(<<>>, insts), {})
\* the allocated run ends as the run of the input did: every variable in its
\* slot, sp, and the words the input wrote
SameOutcome ==
    /\ Halted(prog)
    /\ \A v \in SymbolicVariables(p.insts) :
          Declared(opt, v) /\ RegAllocator_get_val(opt, prog, v) = get_val(p, v)
    /\ get_val(prog, "sp") = get_val(p, "sp")
    /\ \A addr \in DOMAIN p.mem : get_mem(prog, addr) = get_mem(p, addr)

\* C20 as stated: for every straight-line input, after the allocated run
\* memory[slot(v)] is the value v has after the run of the input, and sp and
\* the words written through sp agree.
C20_StraightLineRefinement ==
    (stage = "allocated" /\ StraightLine(p.insts) /\ Halted(p) /\ ~Running(prog)) =>
        SameOutcome
\* C20 amended: the same, for the straight-line inputs none of whose loads
\* and stores touches one of the slots 1..n of its n variables.
C20_RefinementOutsideSlots ==
    (stage = "allocated" /\ StraightLine(p.insts) /\ Halted(p) /\ ~Running(prog)
        /\ Accessed(p.insts) \cap (1..opt.memory_counter) = {}) => SameOutcome
C20_Witness ==
    /\ stage = "allocated" /\ Halted(prog)
    /\ p.insts = <<Asm_Addi("sp", "sp", -1), Asm_Addi("a", "x0", 7), Asm_Sw("sp", 0, "a"),
                   Asm_Lw("sp", 0, "b"), Asm_Addi("c", "b", 6)>>
    /\ RegAllocator_get_val(opt, prog, "c") = 13
    /\ get_mem(prog, get_val(prog, "sp")) = 7

\* the allocator of the run over p.insts after its n-th instruction
AllocatorAfter(n) == optimize_from(RegAllocator, SubSeq(p.insts, 1, n), 1, <<>>, 0).o
Slotted(o) == DOMAIN o.var_to_mem
\* between two successive instructions no slot changes and a new slot is
\* the next number
SlotsKept(q, o) ==
    /\ \A v \in Slotted(q) : v \in Slotted(o) /\ o.var_to_mem[v] = q.var_to_mem[v]
    /\ \A v \in Slotted(o) \ Slotted(q) :
          /\ o.var_to_mem[v] > q.memory_counter
          /\ \A w \in Slotted(q) : o.var_to_mem[v] > q.var_to_mem[w]
    /\ o.memory_counter >= q.memory_counter

\* C21: at every point of an allocation run var_to_mem is injective, its
\* slots are 1..memory_counter, memory_counter is the number of variables
\* with a slot, a slot once given never changes, and x0, sp, ra have none.
C21_SlotsAssignedOnce ==
    (stage \in {"allocated", "alloc_error"} /\ steps = 0) =>
        /\ \A n \in 0..Len(p.insts) :
              LET o == AllocatorAfter(n)
              IN /\ \A v, w \in Slotted(o) : o.var_to_mem[v] = o.var_to_mem[w] => v = w
                 /\ {o.var_to_mem[v] : v \in Slotted(o)} = 1..o.memory_counter
                 /\ Cardinality(Slotted(o)) = o.memory_counter
                 /\ Slotted(o) \cap DEFAULT_REGS = {}
                 /\ n > 0 => SlotsKept(AllocatorAfter(n - 1), o)
        /\ stage = "allocated" => opt = AllocatorAfter(Len(p.insts))
\* a generated And: its result variable is written on both paths and keeps
\* the slot of its first write
C21_Witness ==
    /\ stage = "allocated" /\ steps = 0 /\ variant = "Functions" /\ exp.k = "and"
    /\ opt.memory_counter >= 3
    /\ \E m, n \in DOMAIN prog.insts :
          /\ m < n /\ prog.insts[m].op = "sw" /\ prog.insts[n].op = "sw"
          /\ prog.insts[m].offset = prog.insts[n].offset

\* the register an operand is in when the rewritten instruction runs
Physical(r, scratch) == IF r \in DEFAULT_REGS THEN r ELSE scratch
\* the scratch register of the k-th source: the base of a load in a1,
\* otherwise the first source in a0 and the second in a1
ScratchOf(i, k) == IF i.op = "lw" \/ k = 2 THEN "a1" ELSE "a0"
LoadOf(i, k) ==
    LET s == SourceOperands(i)[k]
    IN IF k \in DOMAIN SourceOperands(i) /\ s \notin DEFAULT_REGS
       THEN <<Asm_Lw("x0", opt.var_to_mem[s], ScratchOf(i, k))>> ELSE <<>>
Rewritten(i) ==
    CASE i.op \in ImmOps ->
             [op |-> i.op, rd |-> Physical(i.rd, "a0"), rs1 |-> Physical(i.rs1, "a0"),
              imm |-> i.imm]
      [] i.op \in StdOps ->
             [op |-> i.op, rd |-> Physical(i.rd, "a0"), rs1 |-> Physical(i.rs1, "a0"),
              rs2 |-> Physical(i.rs2, "a1")]
      [] i.op = "lw" -> Asm_Lw(Physical(i.rs1, "a1"), i.offset, Physical(i.reg, "a0"))
      [] i.op = "sw" -> Asm_Sw(Physical(i.rs1, "a1"), i.offset, Physical(i.reg, "a0"))
StoreOf(i) ==
    IF DestOperands(i) # <<>> /\ DestOperands(i)[1] \notin DEFAULT_REGS
    THEN <<Asm_Sw("x0", opt.var_to_mem[DestOperands(i)[1]], "a0")>> ELSE <<>>
\* loads, the instruction, store
Group(i) == LoadOf(i, 1) \o LoadOf(i, 2) \o <<Rewritten(i)>> \o StoreOf(i)
\* where the group of the n-th input instruction starts in the output
GroupStart(n) == 1 + ExpandedLen(SubSeq(p.insts, 1, n - 1))
GroupOf(n) ==
    SubSeq(prog.insts, GroupStart(n), GroupStart(n) + Expansion(p.insts[n]) - 1)

\* C22: the allocated program is the concatenation, in input order, of one
\* group per input instruction; the group of an arithmetic, lw or sw
\* instruction is the loads of its symbolic sources (first in a0, second or
\* base in a1), the rewritten instruction, then the store of a symbolic
\* destination from a0; x0, sp, ra get neither load nor store.
C22_GroupOrder ==
    stage = "allocated" =>
        /\ Len(prog.insts) = GroupStart(Len(p.insts) + 1) - 1
        /\ \A n \in DOMAIN p.insts :
              IF p.insts[n].op \in ImmOps \cup StdOps \cup {"lw", "sw"}
              THEN GroupOf(n) = Group(p.insts[n])
              ELSE GroupOf(n)[Len(GroupOf(n))].op = p.insts[n].op
C22_Witness ==
    /\ stage = "allocated"
    /\ p.insts = <<Asm_Addi("sp", "sp", -1), Asm_Addi("a", "x0", 7), Asm_Sw("sp", 0, "a"),
                   Asm_Lw("sp", 0, "b"), Asm_Addi("c", "b", 6)>>
    /\ prog.insts = <<Asm_Addi("sp", "sp", -1),
                      Asm_Addi("a0", "x0", 7), Asm_Sw("x0", 1, "a0"),
                      Asm_Lw("x0", 1, "a0"), Asm_Sw("sp", 0, "a0"),
                      Asm_Lw("sp", 0, "a0"), Asm_Sw("x0", 2, "a0"),
                      Asm_Lw("x0", 2, "a0"), Asm_Addi("a0", "a0", 6), Asm_Sw("x0", 3, "a0")>>

\* the number of calls of next_var_name the visit of e makes, node by node
RECURSIVE Calls(_)
Calls(e) ==
    CASE e.k = "var" -> 0
      [] e.k \in {"num", "bln"} -> 1
      [] e.k \in {"add", "sub", "mul", "div", "lth"} -> Calls(e.left) + Calls(e.right) + 1
      [] e.k = "leq" -> Calls(e.left) + Calls(e.right) + 2
      [] e.k = "eql" -> Calls(e.left) + Calls(e.right) + 4
      [] e.k \in {"and", "or"} -> Calls(e.left) + Calls(e.right) + 1
      [] e.k = "neg" -> Calls(e.exp) + 1
      [] e.k = "not" -> Calls(e.exp) + 4
      [] e.k = "let" -> Calls(e.exp_def) + Calls(e.exp_body) + 1
      [] e.k = "if" -> Calls(e.cond) + Calls(e.e0) + Calls(e.e1) + 1
      [] e.k = "fn" -> Calls(e.body)
      [] e.k = "app" -> Calls(e.function) + Calls(e.actual) + 1
\* the names of the form vN that the generated program writes
Destinations(insts) ==
    {DestOperands(insts[n])[1] : n \in {m \in DOMAIN insts : DestOperands(insts[m]) # <<>>}}
FreshWritten ==
    Destinations(p.insts) \cap {VarName(k) : k \in 1..(2 * Len(p.insts) + 1)}

\* C23: the calls of next_var_name of one GenVisitor return v1, v2, v3, ...:
\* after generating, the counter is the number of calls made and the
\* program holds that many different fresh names, v1 to v<counter>.
C23_FreshNames ==
    (variant \in {"RegAlloc", "Functions"} /\ Generated) =>
        /\ gen.next_var_counter = Calls(exp)
        /\ FreshWritten = {VarName(k) : k \in 1..Calls(exp)}
        /\ Cardinality(FreshWritten) = Calls(exp)
C23_Witness ==
    /\ variant = "Functions" /\ stage = "generated" /\ exp.k = "if"
    /\ gen.next_var_counter >= 4
    /\ VarName(gen.next_var_counter) \in FreshWritten

\* the instructions of the generated program that write var
WritesOf(var) == {n \in DOMAIN p.insts : DestOperands(p.insts[n]) = <<var>>}
SymbolicWritten == Destinations(p.insts) \ PhysicalRegisters
\* the number of And, Or and IfThenElse nodes of e
RECURSIVE BranchNodes(_)
BranchNodes(e) ==
    CASE e.k \in {"var", "num", "bln"} -> 0
      [] e.k \in {"and", "or"} -> BranchNodes(e.left) + BranchNodes(e.right) + 1
      [] e.k = "if" -> BranchNodes(e.cond) + BranchNodes(e.e0) + BranchNodes(e.e1) + 1
      [] e.k \in BinaryKinds -> BranchNodes(e.left) + BranchNodes(e.right)
      [] e.k \in UnaryKinds -> BranchNodes(e.exp)
      [] e.k = "let" -> BranchNodes(e.exp_def) + BranchNodes(e.exp_body)
      [] e.k = "fn" -> BranchNodes(e.body)
      [] e.k = "app" -> BranchNodes(e.function) + BranchNodes(e.actual)
\* the two writes of var are the ends of two paths: the first is followed
\* by a Jal x0 to the instruction after the second
OnePerPath(var) ==
    \E m, n \in WritesOf(var) :
        /\ m < n /\ WritesOf(var) = {m, n}
        /\ p.insts[m + 1].op = "jal" /\ p.insts[m + 1].rd = "x0" /\ p.insts[m + 1].lab = n

\* C24 as stated: every symbolic variable of a generated program is the
\* destination of exactly one instruction.
C24_SingleAssignment ==
    (variant \in {"RegAlloc", "Functions"} /\ Generated) =>
        \A var \in SymbolicWritten : Cardinality(WritesOf(var)) = 1
\* C24 amended: exactly one instruction, except the result variable of each
\* And, Or and IfThenElse, written by exactly two, one at the end of each
\* of its two paths.
C24_OneWritePerPath ==
    (variant \in {"RegAlloc", "Functions"} /\ Generated) =>
        /\ \A var \in SymbolicWritten :
              Cardinality(WritesOf(var)) = 1 \/ (var \in FreshWritten /\ OnePerPath(var))
        /\ Cardinality({var \in SymbolicWritten : Cardinality(WritesOf(var)) = 2})
              = BranchNodes(exp)
C24_Witness ==
    /\ variant = "Functions" /\ stage = "generated" /\ exp.k = "if"
    /\ BranchNodes(exp) >= 2
    /\ OnePerPath(var_answer)
    /\ \E var \in SymbolicWritten \ FreshWritten : Cardinality(WritesOf(var)) = 1

\* the number of instructions the visit of e emits, node by node
RECURSIVE Emitted(_)
Emitted(e) ==
    CASE e.k = "var" -> 0
      [] e.k \in {"num", "bln"} -> 1
      [] e.k \in {"add", "sub", "mul", "div", "lth"} -> Emitted(e.left) + Emitted(e.right) + 1
      [] e.k = "leq" -> Emitted(e.left) + Emitted(e.right) + 2
      [] e.k = "eql" -> Emitted(e.left) + Emitted(e.right) + 4
      [] e.k \in {"and", "or"} -> Emitted(e.left) + Emitted(e.right) + 4
      [] e.k = "neg" -> Emitted(e.exp) + 1
      [] e.k = "not" -> Emitted(e.exp) + 4
      [] e.k = "let" -> Emitted(e.exp_def) + Emitted(e.exp_body) + 2
      [] e.k = "if" -> Emitted(e.cond) + Emitted(e.e0) + Emitted(e.e1) + 4
      [] e.k = "fn" -> Emitted(e.body) + 8
      [] e.k = "app" -> Emitted(e.function) + Emitted(e.actual) + 3
\* post holds the instructions of pre at the same indices, changed at most
\* in a target that was not yet known
OnlyPatched(pre, post) ==
    /\ Len(pre) <= Len(post)
    /\ \A n \in DOMAIN pre :
          \/ post[n] = pre[n]
          \/ /\ pre[n].op \in {"beq", "jal"} /\ pre[n].lab = None
             /\ post[n] = [pre[n] EXCEPT !.lab = post[n].lab]
\* the program at the time the first Beq of a top-level And, Or or
\* IfThenElse, or the prologue of a top-level applied Fn, had been emitted
EmittedEarlier ==
    IF exp.k \in {"and", "or", "if"} THEN AfterBeq.prog.insts
    ELSE IF TopApp THEN FnPrologue.prog.insts
    ELSE <<>>

\* C25: when generate returns every Beq and Jal has a target t with
\* own_index < t <= len(program); the instructions emitted before a patch
\* keep their index and order and differ at most in the target filled in,
\* and none is removed.
C25_BranchPatching ==
    (variant \in {"RegAlloc", "Functions"} /\ Generated) =>
        /\ \A n \in DOMAIN p.insts :
              p.insts[n].op \in {"beq", "jal"} =>
                  /\ p.insts[n].lab # None
                  /\ n - 1 < p.insts[n].lab /\ p.insts[n].lab <= Len(p.insts)
        /\ OnlyPatched(EmittedEarlier, p.insts)
        /\ Len(p.insts) = Emitted(exp)
C25_Witness ==
    /\ variant = "Functions" /\ stage = "generated" /\ exp.k = "or"
    /\ BranchNodes(exp) >= 2
    /\ AfterBeq.prog.insts[Len(AfterBeq.prog.insts)].lab = None
    /\ p.insts[Len(AfterBeq.prog.insts)].lab > Len(AfterBeq.prog.insts)
    /\ \E n \in DOMAIN p.insts : p.insts[n].op = "jal" /\ p.insts[n].lab = Len(p.insts)

\* the Jal of each function definition of the generated program; the pc of
\* the function's first instruction and of its final Jalr
FnDefs == {j \in DOMAIN p.insts : p.insts[j].op = "jal" /\ p.insts[j].rd # "x0"}
Entry(j) == j
Exit(j) == p.insts[j].lab - 1
InstAt(pc) == p.insts[pc + 1]
Enclosing(pc) == {j \in FnDefs : Entry(j) <= pc /\ pc <= Exit(j)}
Innermost(pc) == CHOOSE j \in Enclosing(pc) : \A k \in Enclosing(pc) : k <= j
\* entry: sp decremented, then ra stored; exit: ra reloaded, then sp
\* incremented, then the return
FrameCode(j) ==
    /\ InstAt(Entry(j)) = Asm_Addi("sp", "sp", -1)
    /\ InstAt(Entry(j) + 1) = Asm_Sw("sp", 0, "ra")
    /\ InstAt(Exit(j) - 2) = Asm_Lw("sp", 0, "ra")
    /\ InstAt(Exit(j) - 1) = Asm_Addi("sp", "sp", 1)
    /\ InstAt(Exit(j)) = Asm_Jalr("x0", "ra", 0)
\* ret is the address after a call, and the stack from address k upwards
\* holds the return addresses of the invocations that enclose that call
RECURSIVE Frames(_, _)
Frames(ret, k) ==
    /\ ret \in 1..Len(p.insts)
    /\ InstAt(ret - 1).op = "jalr" /\ InstAt(ret - 1).rd = "ra"
    /\ IF Enclosing(ret) = {} THEN k = MemSize
       ELSE k < MemSize /\ Frames(get_mem(p, k), k + 1)
\* the stack matches the invocations in progress
WellStacked ==
    LET pc == p.pc
        sp == get_val(p, "sp")
        ra == get_val(p, "ra")
    IN IF Enclosing(pc) = {} THEN sp = MemSize
       ELSE LET j == Innermost(pc)
            IN CASE pc = Entry(j) \/ pc = Exit(j) -> Frames(ra, sp)
                 [] pc = Entry(j) + 1 -> Frames(ra, sp + 1)
                 [] pc = Exit(j) - 1 -> get_mem(p, sp) = ra /\ Frames(ra, sp + 1)
                 [] OTHER -> Frames(get_mem(p, sp), sp + 1)

\* C26: a function decrements sp and stores ra on entry, reloads ra and
\* increments sp before it returns; while the program runs the stack holds
\* one return address per invocation in progress, the outer ones intact
\* during an inner call; sp is never above the memory size, is the memory
\* size outside every function (so also after each top-level call) and at
\* halt.
C26_StackDiscipline ==
    (variant = "Functions" /\ Generated /\ (Running(p) \/ Halted(p))) =>
        /\ \A j \in FnDefs : FrameCode(j)
        /\ get_val(p, "sp") <= MemSize
        /\ WellStacked
        /\ Halted(p) => get_val(p, "sp") = MemSize
\* inside a call made from a function body, the outer return address saved
\* above the inner one
C26_Witness ==
    /\ variant = "Functions" /\ stage = "generated" /\ Running(p)
    /\ get_val(p, "sp") = MemSize - 2
    /\ Cardinality(Enclosing(p.pc)) = 2
    /\ get_mem(p, MemSize - 1) # get_mem(p, MemSize - 2)
    /\ InstAt(p.pc).op = "add"

IsReturn(i) == i = Asm_Jalr("x0", "ra", 0)
\* the instructions from the first after the Jal at j to the one before its
\* target: they end with a return, and hold as many returns as functions
WholeFunction(j) ==
    LET inside == {n \in DOMAIN p.insts : j < n /\ n <= p.insts[j].lab}
    IN /\ p.insts[j].lab \in (j + 5)..Len(p.insts)
       /\ IsReturn(p.insts[p.insts[j].lab])
       /\ Cardinality({n \in inside : IsReturn(p.insts[n])})
              = 1 + Cardinality(inside \cap FnDefs)
Body(j) == Entry(j)..Exit(j)
\* a step of the run that executes a Jal of a function definition
Defines == stage = "generated" /\ Running(p) /\ (p.pc + 1) \in FnDefs /\ p' # p
\* a step of the run that enters the body of j from outside it
Enters(j) ==
    /\ stage = "generated" /\ Running(p) /\ p' # p /\ ~p'.fault
    /\ p.pc \notin Body(j) /\ p'.pc \in Body(j)

\* C27: the Jal of a function definition jumps to the instruction after
\* the function's final Jalr and leaves the index of the first body
\* instruction in the function's variable; the body is entered only by a
\* Jalr that calls the entry address or that returns into it from a call
\* the body made, never from its definition.
C27_GuardedBody ==
    [][/\ (variant = "Functions" /\ stage = "generated") =>
              \A j \in FnDefs : WholeFunction(j)
       /\ Defines =>
              /\ p'.pc = CurInst(p).lab /\ p'.pc \notin Body(p.pc + 1)
              /\ get_val(p', CurInst(p).rd) = p.pc + 1
              /\ get_val(p', CurInst(p).rd) = Entry(p.pc + 1)
       /\ \A j \in FnDefs :
              Enters(j) =>
                  /\ CurInst(p).op = "jalr"
                  /\ \/ /\ CurInst(p).rd = "ra" /\ p'.pc = Entry(j)
                        /\ get_val(p, CurInst(p).rs) = Entry(j)
                     \/ /\ IsReturn(CurInst(p)) /\ p'.pc > Entry(j) + 2
                        /\ InstAt(p'.pc - 1).op = "jalr"]_vars
\* the function of App(Fn(v, ...), a) has been defined and is running
C27_Witness ==
    /\ variant = "Functions" /\ stage = "generated" /\ TopApp /\ Running(p)
    /\ p.pc \in Body(1) /\ p.pc > Entry(1) + 2
    /\ get_val(p, FnGen.ret) = 1
    /\ get_val(p, "ra") = CallPc + 1

\* the step in which the tree is visited by GenVisitor
Generates == stage = "renamed" /\ stage' \in {"generated", "generate_error"}

\* C28: visiting a tree with GenVisitor only appends instructions: the
\* program it returns has the pc, the memory and the variable table of a
\* new Program and no instruction of it has run; the binding of a Let is
\* an emitted Add(name, x0, def_var).
C28_GenerationOnlyEmits ==
    [][Generates =>
          /\ p'.pc = 0 /\ p'.mem = <<>> /\ p'.env = Registers /\ ~p'.fault
          /\ exp.k = "let" =>
                \E n \in DOMAIN p'.insts :
                    /\ p'.insts[n].op = "add" /\ p'.insts[n].rd = exp.identifier
                    /\ p'.insts[n].rs1 = "x0"]_vars

\* e has no Fn and no App
RECURSIVE FunctionFree(_)
FunctionFree(e) ==
    CASE e.k \in {"var", "num", "bln"} -> TRUE
      [] e.k \in BinaryKinds -> FunctionFree(e.left) /\ FunctionFree(e.right)
      [] e.k \in UnaryKinds -> FunctionFree(e.exp)
      [] e.k = "let" -> FunctionFree(e.exp_def) /\ FunctionFree(e.exp_body)
      [] e.k = "if" -> FunctionFree(e.cond) /\ FunctionFree(e.e0) /\ FunctionFree(e.e1)
      [] OTHER -> FALSE
\* the run of the program generated from an expression without functions
FunctionFreeRun == variant # "Insts" /\ stage = "generated" /\ FunctionFree(exp)

\* C29 as stated: the run of a program generated from an expression without
\* Fn and App takes at most len(program) steps, each of which increases the
\* pc, and ends with pc >= len(program).
C29_Halts ==
    FunctionFreeRun =>
        /\ steps <= Len(p.insts)
        /\ ~Running(p) => Halted(p)
\* C29 amended: at most len(program) steps, each of which increases the pc
\* unless the instruction raises; the run ends with pc >= len(program) or at
\* the instruction that raised.
C29_StopsWithinLength ==
    [][FunctionFreeRun =>
          /\ steps <= Len(p.insts)
          /\ p' # p => (p'.fault \/ p'.pc > p.pc)
          /\ ~Running(p) => (Halted(p) \/ (p.fault /\ p.pc < Len(p.insts)))
          /\ \A n \in DOMAIN p.insts :
                p.insts[n].op \in {"beq", "jal"} => p.insts[n].lab > n - 1]_vars
\* a run that skipped a branch and reached the end
C29_Witness ==
    /\ variant = "Functions" /\ stage = "generated" /\ exp.k = "if" /\ FunctionFree(exp)
    /\ BranchNodes(exp) >= 2
    /\ Halted(p) /\ p.pc = Len(p.insts)
    /\ steps > 0 /\ steps < Len(p.insts)

\* the jump or branch that ends the group of the n-th input instruction
Copied(n) == GroupOf(n)[Len(GroupOf(n))]
AllocatedBeq ==
    <<Asm_Addi("a", "x0", 3), Asm_Addi("b", "a", 0), Asm_Beq("a", "b", 30)>>

\* C30: the allocated program holds, for every Beq and Jal of the input, a
\* Beq or Jal with the same target number, and for every Jalr a Jalr with
\* the same offset, although the instruction the number pointed to has a
\* new index; the allocated Beq(a, b, 30) sets the pc to 30.
C30_TargetsCopied ==
    stage = "allocated" =>
        /\ \A n \in DOMAIN p.insts :
              /\ p.insts[n].op \in {"beq", "jal"} =>
                    Copied(n).op = p.insts[n].op /\ Copied(n).lab = p.insts[n].lab
              /\ p.insts[n].op = "jalr" =>
                    Copied(n).op = "jalr" /\ Copied(n).offset = p.insts[n].offset
        /\ (p.insts = AllocatedBeq /\ ~Running(prog)) => prog.pc = 30
\* the program generated for an Or: the Beq keeps its target, 4, while the
\* instruction that was at 4 is now further down
C30_Witness ==
    /\ stage = "allocated" /\ variant = "Functions" /\ exp = Or(Bln(FALSE), Bln(TRUE))
    /\ p.insts[2] = Asm_Beq("v1", "x0", 4)
    /\ Copied(2) = Asm_Beq("a0", "x0", 4)
    /\ GroupStart(5) - 1 > 4

====
